---------------------------- MODULE Spec2Model ----------------------------
(***************************************************************************)
(* A model of the resilient tool-invocation subsystem of the Leo agent     *)
(* (leo-agent/src/mcp-manager-fixed.js and its collaborators).             *)
(*                                                                         *)
(* Spec       the connection pool of MCPManager: tasks of the single       *)
(*            JavaScript event loop run getConnection, initialize and      *)
(*            disconnect; one action is the code that runs between two     *)
(*            awaits.                                                       *)
(* SpecTimed  one caller's callToolWithTimeout calls on that pool, with    *)
(*            the time every awaited operation takes (in seconds).         *)
(* SpecGather one caller's gatherData calls, down to callToolWithRetry;    *)
(*            what getConnection and callToolWithTimeout do is drawn from   *)
(*            the outcomes the two specifications above give them.         *)
(* SpecTracker  the performance tracker of TimeoutRecoveryManager over     *)
(*            long runs of recorded calls of one tool.                     *)
(* SpecRecovery the methods of TimeoutRecoveryManager called on short      *)
(*            histories: statistics, suggested timeout, strategies and the *)
(*            timeout descriptor.                                          *)
(***************************************************************************)
EXTENDS Integers, Sequences, FiniteSets, TLC

VARIABLES
    servers,         \* MCPManager.servers: key -> connection id (0 = no entry)
    serversOrder,    \* insertion order of the entries of MCPManager.servers
    connectionPool,  \* MCPManager.connectionPool: key -> connection id (0 = no entry)
    initialized,     \* MCPManager.initialized
    subprocess,      \* connection id -> the transport's subprocess and its state
    leaked,          \* key -> a running subprocess of the key is out of the manager's reach
    calls,           \* calls started so far (bounds a behaviour)
    task,            \* async call -> where it is suspended and what it holds
    call,            \* the callToolWithTimeout call in flight, with its clock
    gather,          \* the gatherData call in flight and the frames under it
    failureHistory,     \* TimeoutRecoveryManager.failureHistory: tool -> failures
    performanceMetrics, \* TimeoutRecoveryManager.performanceMetrics: tool -> metrics
    reply,              \* the last call made on the manager and what it returned
    health,          \* the healthCheck call in flight and its report so far
    lastDetectedBrand,   \* BrandDetector.lastDetectedBrand
    conversationHistory, \* LeoAgent.conversationHistory: userId -> history
    pendingMCPRequests,  \* LeoAgent.pendingMCPRequests: userId -> request
    lastErrorContext,    \* LeoAgent.lastErrorContext: userId -> error context
    turn                 \* the chat call in flight, and the turns so far

\* the state of the connection pool
poolVars == <<servers, serversOrder, connectionPool, initialized, subprocess,
              leaked, calls, task>>

\* the state of the callers of the pool
callerVars == <<call, gather>>

\* the state of the TimeoutRecoveryManager and of its caller
trackerVars == <<failureHistory, performanceMetrics, reply>>

\* the state of LeoAgent and of its BrandDetector
agentVars == <<lastDetectedBrand, conversationHistory, pendingMCPRequests,
               lastErrorContext, turn>>

\* the state of the callers of healthCheck and of the agent
appVars == <<health, agentVars>>

vars == <<poolVars, callerVars, trackerVars, appVars>>

(***************************************************************************)
(* Bounds of the model.                                                    *)
(***************************************************************************)
\* connection objects (client + transport) the manager and its calls in
\* flight can hold at one time
MaxConns == 3

\* calls started in one behaviour
MaxCalls == 3

\* concurrent async calls on the one MCPManager
Tasks == {"t1", "t2"}

\* seconds an operation that does not hang can take to settle
MaxDelay == 1

\* words in a query
MaxWords == 3

Delays == 0..MaxDelay

(***************************************************************************)
(* Timers, in seconds.                                                     *)
(***************************************************************************)
\* getConnection: the liveness probe's timer
ProbeTimeout == 2

\* connectServer: the timer raced against client.connect
ConnectTimeout == 10

\* connectServer: the timer raced against the listTools test
ListToolsTimeout == 5

\* the timeouts callToolWithTimeout is called with: queryAtlassian's 10 s,
\* the default, which queryGoogleDrive also passes, and the 25 s of the
\* recovery strategies' timeoutOverride
ToolTimeouts == {10, 15, 25}

\* connectServer, line 130: the timer the _sendRequest wrapper races against
\* every request
RequestTimer == 20

(***************************************************************************)
(* Configuration (constructor).                                            *)
(***************************************************************************)
\* Object.entries(this.serverConfigs), in declaration order; both enabled
ServerKeys == <<"atlassian", "googleDrive">>

Keys == {ServerKeys[i] : i \in 1..Len(ServerKeys)}

\* a key with no entry in serverConfigs
UnknownKey == "unknown"

ConnIds == 1..MaxConns

NoConn == 0

(***************************************************************************)
(* Subprocess states.  "running": spawned and not ended; whether it        *)
(* answers a request in time is drawn when the request settles.            *)
(* "exited": ended on its own, or never started.  "closed": terminated by  *)
(* client.close().  A subprocess is live while it is a running OS process. *)
(***************************************************************************)
LiveStates == {"running"}

Live(id) == subprocess[id].st \in LiveStates

Unborn == [key |-> "none", st |-> "unborn"]

FreeIds == {id \in ConnIds : subprocess[id].st = "unborn"}

CanSpawn == FreeIds # {}

\* the id the next serverInfo object gets
NextId == CHOOSE id \in FreeIds : \A other \in FreeIds : id <= other

\* no callToolWithTimeout call in flight; `last` is what the call before
\* gave its caller, `abandoned` the kinds of promises that lost a race of
\* line 360 and have not settled yet, `unhandled` tells that a promise
\* nothing listens to was rejected
NoCall == [pc |-> "idle", key |-> "none", timeout |-> 0, elapsed |-> 0,
           conn |-> NoConn, result |-> "none", settled |-> "none",
           last |-> "none", abandoned |-> {}, unhandled |-> FALSE]

(***************************************************************************)
(* JavaScript values.  An object is the record of its properties; a        *)
(* property that was never set is not in its domain.                       *)
(***************************************************************************)
\* {}
EmptyObject == [k \in {} |-> ""]

Undefined == [undefined |-> TRUE]

\* o[k] = v
SetProp(o, k, v) == [x \in DOMAIN o \cup {k} |-> IF x = k THEN v ELSE o[x]]

Has(o, k) == k \in DOMAIN o

Truthy(v) == v # Undefined

\* result && !result.error
Success(v) == Truthy(v) /\ ~Has(v, "error")

\* the frame of callToolWithRetry(serverKey, toolName, params, timeout,
\* maxRetries): `site` is the call site, `outcomes` what each
\* callToolWithTimeout call gave, `returned` the value returned once it has,
\* `waited` the seconds gone by since the timer of line 319 was set and
\* `delays` the seconds waited before each attempt after the first
NotReturned == [pending |-> TRUE]

NoRetry == [site |-> "none", serverKey |-> "none", toolName |-> "none",
            timeout |-> 0, maxRetries |-> 0, attempt |-> 0,
            lastError |-> Undefined, outcomes |-> <<>>,
            returned |-> NotReturned, waited |-> 0, delays |-> <<>>]

\* what getConnection and callToolWithTimeout gave, per server and per tool,
\* since gatherData was called
NoLog == [atlassian |-> {}, googleDrive |-> {}, jira_search |-> {},
          confluence_search |-> {}, drive_search_files |-> {}]

\* the reply of the manager before any call was made on it
NoReply == [method |-> "none"]

\* no gatherData call in flight; `atlassian` is the results object of
\* queryAtlassian, `results` that of gatherData, `closed` tells how the
\* callToolWithRetry calls made so far ended
NoGather == [pc |-> "idle", query |-> {}, results |-> EmptyObject,
             atlassian |-> EmptyObject, retry |-> NoRetry, log |-> NoLog,
             closed |-> EmptyObject]

\* JavaScript null
Null == [null |-> TRUE]

\* no chat call in flight; n counts the chat calls made
NoTurn == [pc |-> "idle", n |-> 0]

\* no healthCheck call in flight
NoHealth == [pc |-> "idle", i |-> 0, conn |-> NoConn, health |-> EmptyObject,
             probe |-> EmptyObject]

IdleTask == [op |-> "idle", pc |-> "idle", key |-> "none", conn |-> NoConn,
             i |-> 0, seen |-> {}, probed |-> NoConn, built |-> NoConn,
             evicted |-> NoConn, ret |-> NoConn, alone |-> TRUE,
             prev |-> NoConn, logged |-> {}]

Init ==
    /\ servers = [k \in Keys |-> NoConn]
    /\ serversOrder = <<>>
    /\ connectionPool = [k \in Keys |-> NoConn]
    /\ initialized = FALSE
    /\ subprocess = [id \in ConnIds |-> Unborn]
    /\ leaked = [k \in Keys |-> FALSE]
    /\ calls = 0
    /\ task = [t \in Tasks |-> IdleTask]
    /\ call = NoCall
    /\ gather = NoGather
    /\ failureHistory = EmptyObject
    /\ performanceMetrics = EmptyObject
    /\ reply = NoReply
    /\ health = NoHealth
    /\ lastDetectedBrand = Null
    /\ conversationHistory = EmptyObject
    /\ pendingMCPRequests = EmptyObject
    /\ lastErrorContext = EmptyObject
    /\ turn = NoTurn

(***************************************************************************)
(* Helpers shared by the actions.                                          *)
(***************************************************************************)
\* a call that has returned or raised is over: it is not in flight
InFlight(u) == task[u].op # "idle" /\ task[u].pc \notin {"returned", "raised"}

OthersIdle(t) == \A u \in Tasks \ {t} : ~InFlight(u)

\* the connection the getConnection(k) call before this one returned: that
\* call is over, and no call has started since it started
Previous(t, k) ==
    LET before == {u \in Tasks \ {t} : /\ task[u].op = "getConnection"
                                       /\ task[u].pc = "returned"
                                       /\ task[u].key = k
                                       /\ task[u].alone}
    IN IF before = {} THEN NoConn ELSE task[CHOOSE u \in before : TRUE].ret

\* task t starts a call as rec; every call already in flight now overlaps one
Begin(t, rec) ==
    /\ calls < MaxCalls
    /\ task' = [u \in Tasks |->
                  IF u = t THEN [rec EXCEPT !.alone = OthersIdle(t),
                                            !.prev = IF rec.op = "getConnection"
                                                     THEN Previous(t, rec.key)
                                                     ELSE NoConn]
                  ELSE IF task[u].op # "idle" THEN [task[u] EXCEPT !.alone = FALSE]
                  ELSE task[u]]


\* the connection objects a map entry or a call still refers to
Refs(srv, pool, tk) ==
    {srv[k] : k \in Keys} \cup {pool[k] : k \in Keys}
    \cup UNION {{tk[t].conn, tk[t].probed, tk[t].built, tk[t].evicted, tk[t].ret} :
                t \in Tasks}

\* The end of every step, given the subprocess states sub it leaves: an object
\* nothing refers to any more is garbage (its id is free again), but nothing
\* ends its subprocess: one that still runs is leaked.
Settle(sub) ==
    LET kept == Refs(servers', connectionPool', task') IN
    /\ calls' = calls + Cardinality({t \in Tasks : task[t].op = "idle"
                                                    /\ task'[t].op # "idle"})
    /\ subprocess' = [id \in ConnIds |-> IF id \in kept THEN sub[id] ELSE Unborn]
    /\ leaked' = [k \in Keys |->
                    \/ leaked[k]
                    \/ \E id \in ConnIds \ kept :
                          sub[id].key = k /\ sub[id].st \in LiveStates]

\* new StdioClientTransport + client.connect(transport): the subprocess is
\* spawned synchronously, before connectServer's first await
Spawned(k) == [subprocess EXCEPT ![NextId] = [key |-> k, st |-> "running"]]

\* a request raced against a timer can be answered in time: only a running
\* subprocess answers
Answers(id) == subprocess[id].st = "running"

\* A request failed: its timer fired first (the subprocess is slow or hangs,
\* and keeps running) or the channel closed (exits: the subprocess had ended
\* on its own, or could not be started).
Failed(id, exits) ==
    IF exits /\ subprocess[id].st = "running"
    THEN [subprocess EXCEPT ![id].st = "exited"]
    ELSE subprocess

\* ServersSet that keeps the serverInfo object servers already has
ServersSet_PoolOnly(k, id) ==
    /\ servers' = [servers EXCEPT ![k] = IF @ = NoConn THEN id ELSE @]
    /\ connectionPool' = [connectionPool EXCEPT ![k] = id]
    /\ serversOrder' = IF servers[k] # NoConn THEN serversOrder
                       ELSE Append(serversOrder, k)

\* connectServer, lines 163-164: both maps get the new serverInfo
ServersSet(k, id) ==
    /\ servers' = [servers EXCEPT ![k] = id]
    /\ connectionPool' = [connectionPool EXCEPT ![k] = id]
    /\ serversOrder' = IF servers[k] # NoConn THEN serversOrder
                       ELSE Append(serversOrder, k)

\* GetConnection without the pool lookup of lines 73-84: connectServer always
GetConnection_NoPool(t, k) ==
    /\ task[t].op = "idle"
    /\ UNCHANGED <<servers, serversOrder, connectionPool, initialized>>
    /\ LET rec == [IdleTask EXCEPT !.op = "getConnection", !.key = k] IN
       IF k \notin Keys
       THEN /\ Begin(t, [rec EXCEPT !.pc = "raised"])
            /\ Settle(subprocess)
       ELSE /\ CanSpawn
            /\ Begin(t, [rec EXCEPT !.pc = "connecting", !.conn = NextId])
            /\ Settle(Spawned(k))

(***************************************************************************)
(* getConnection(key)                                                      *)
(***************************************************************************)
\* lines 68-77 and 85-91 up to the first await: a pooled entry is probed
\* (listTools raced against a 2 s timer); without one the key's config is
\* looked up and connectServer spawns a subprocess
GetConnection(t, k) ==
    /\ task[t].op = "idle"
    /\ UNCHANGED <<servers, serversOrder, connectionPool, initialized>>
    /\ LET rec == [IdleTask EXCEPT !.op = "getConnection", !.key = k] IN
       IF k \notin Keys
       THEN /\ Begin(t, [rec EXCEPT !.pc = "raised"])
            /\ Settle(subprocess)
       ELSE IF connectionPool[k] # NoConn
       THEN /\ Begin(t, [rec EXCEPT !.pc = "probing", !.conn = connectionPool[k]])
            /\ Settle(subprocess)
       ELSE /\ CanSpawn
            /\ Begin(t, [rec EXCEPT !.pc = "connecting", !.conn = NextId])
            /\ Settle(Spawned(k))

\* line 78: the probe was answered, the pooled connection is returned
ProbeOk(t) ==
    /\ task[t].op = "getConnection"
    /\ task[t].pc = "probing"
    /\ Answers(task[t].conn)
    /\ task' = [task EXCEPT ![t].pc = "returned",
                            ![t].probed = task[t].conn,
                            ![t].ret = task[t].conn]
    /\ UNCHANGED <<servers, serversOrder, connectionPool, initialized>>
    /\ Settle(subprocess)

\* ProbeFail without line 81: the failed entry stays in the pool
ProbeFail_NoEvict(t, exits) ==
    /\ task[t].op = "getConnection"
    /\ task[t].pc = "probing"
    /\ CanSpawn
    /\ task' = [task EXCEPT ![t].pc = "connecting",
                            ![t].evicted = task[t].conn,
                            ![t].conn = NextId]
    /\ UNCHANGED <<servers, serversOrder, connectionPool, initialized>>
    /\ Settle([Failed(task[t].conn, exits) EXCEPT
                  ![NextId] = [key |-> task[t].key, st |-> "running"]])

\* lines 79-91: the probe failed; the pool entry of the key is deleted (the
\* client is not closed) and connectServer spawns a new subprocess
ProbeFail(t, exits) ==
    /\ task[t].op = "getConnection"
    /\ task[t].pc = "probing"
    /\ CanSpawn
    /\ connectionPool' = [connectionPool EXCEPT ![task[t].key] = NoConn]
    /\ task' = [task EXCEPT ![t].pc = "connecting",
                            ![t].evicted = task[t].conn,
                            ![t].conn = NextId]
    /\ UNCHANGED <<servers, serversOrder, initialized>>
    /\ Settle([Failed(task[t].conn, exits) EXCEPT
                  ![NextId] = [key |-> task[t].key, st |-> "running"]])

(***************************************************************************)
(* connectServer(key, config), shared by getConnection and initialize      *)
(***************************************************************************)
\* lines 139-148: the subprocess completed the handshake, so client.connect
\* won its race against the 10 s timer; the listTools test is sent
ConnectResolved(t) ==
    /\ task[t].op \in {"getConnection", "initialize"}
    /\ task[t].pc = "connecting"
    /\ Answers(task[t].conn)
    /\ task' = [task EXCEPT ![t].pc = "listing"]
    /\ UNCHANGED <<servers, serversOrder, connectionPool, initialized>>
    /\ Settle(subprocess)

\* connectServer's catch (166-169) is reached: the spawn failed, the connect
\* timer (10 s) or the listTools timer (5 s) fired, or the channel closed
ConnectRejects(t) == task[t].pc \in {"connecting", "listing"}

\* lines 147-164 and 92: the test answered; both maps are set and
\* getConnection returns this.servers.get(key)
GetConnectionBuilt(t) ==
    /\ task[t].op = "getConnection"
    /\ task[t].pc = "listing"
    /\ Answers(task[t].conn)
    /\ ServersSet(task[t].key, task[t].conn)
    /\ task' = [task EXCEPT ![t].pc = "returned",
                            ![t].built = task[t].conn,
                            ![t].ret = servers'[task[t].key]]
    /\ UNCHANGED initialized
    /\ Settle(subprocess)

\* lines 166-169 and 91: connectServer rethrows and getConnection lets the
\* error through; nothing is written to the maps
GetConnectionBuildFailed(t, exits) ==
    /\ task[t].op = "getConnection"
    /\ ConnectRejects(t)
    /\ task' = [task EXCEPT ![t].pc = "raised"]
    /\ UNCHANGED <<servers, serversOrder, connectionPool, initialized>>
    /\ Settle(Failed(task[t].conn, exits))

(***************************************************************************)
(* initialize()                                                            *)
(***************************************************************************)
\* lines 48-54: the loop over serverConfigs starts connectServer for the
\* first key
Initialize(t) ==
    /\ task[t].op = "idle"
    /\ CanSpawn
    /\ Begin(t, [IdleTask EXCEPT !.op = "initialize", !.pc = "connecting",
                                 !.i = 1, !.key = ServerKeys[1],
                                 !.conn = NextId])
    /\ UNCHANGED <<servers, serversOrder, connectionPool, initialized>>
    /\ Settle(Spawned(ServerKeys[1]))

\* lines 51-62: the loop goes to the next key, or ends with initialized = true
\* (the maps of the step are already set)
InitializeNext(t, sub) ==
    IF task[t].i < Len(ServerKeys)
    THEN /\ CanSpawn
         /\ task' = [task EXCEPT ![t].pc = "connecting",
                                 ![t].i = task[t].i + 1,
                                 ![t].key = ServerKeys[task[t].i + 1],
                                 ![t].conn = NextId]
         /\ UNCHANGED initialized
         /\ Settle([sub EXCEPT ![NextId] = [key |-> ServerKeys[task[t].i + 1],
                                            st |-> "running"]])
    ELSE /\ initialized' = TRUE
         /\ task' = [task EXCEPT ![t].pc = "returned", ![t].conn = NoConn]
         /\ Settle(sub)

\* connectServer succeeded for the current key
InitializeConnected(t) ==
    /\ task[t].op = "initialize"
    /\ task[t].pc = "listing"
    /\ Answers(task[t].conn)
    /\ ServersSet(task[t].key, task[t].conn)
    /\ InitializeNext(t, subprocess)

\* lines 55-57: connectServer threw; the error is logged and the loop goes on
InitializeConnectFailed(t, exits) ==
    /\ task[t].op = "initialize"
    /\ ConnectRejects(t)
    /\ UNCHANGED <<servers, serversOrder, connectionPool>>
    /\ InitializeNext(t, Failed(task[t].conn, exits))

(***************************************************************************)
(* isServerAvailable(serverName) and getStatus()                           *)
(***************************************************************************)
\* line 451: this.servers.has(serverName)
IsServerAvailable(serverName) ==
    serverName \in Keys /\ servers[serverName] # NoConn

\* lines 494-508, the `available` of each entry (the name, the enabled flag
\* and the tool count are left out)
GetStatus == [key \in Keys |-> [available |-> servers[key] # NoConn]]

(***************************************************************************)
(* disconnect()                                                            *)
(***************************************************************************)
\* the entries of this.servers a Map iterator that passed `seen` has yet to
\* visit
Unvisited(seen) == SelectSeq(serversOrder, LAMBDA k : k \notin seen)

\* disconnect that leaves the pool's map as it is
ClearAll_PoolKept ==
    /\ servers' = [k \in Keys |-> NoConn]
    /\ serversOrder' = <<>>
    /\ UNCHANGED connectionPool
    /\ initialized' = FALSE

\* lines 523-525
ClearAll ==
    /\ servers' = [k \in Keys |-> NoConn]
    /\ serversOrder' = <<>>
    /\ connectionPool' = [k \in Keys |-> NoConn]
    /\ initialized' = FALSE

\* lines 513-516: with no entry the maps are cleared at once; otherwise the
\* first client's close() is awaited
Disconnect(t) ==
    /\ task[t].op = "idle"
    /\ IF serversOrder = <<>>
       THEN /\ ClearAll
            /\ Begin(t, [IdleTask EXCEPT !.op = "disconnect", !.pc = "returned"])
       ELSE /\ Begin(t, [IdleTask EXCEPT !.op = "disconnect", !.pc = "closing",
                                         !.key = Head(serversOrder),
                                         !.conn = servers[Head(serversOrder)]])
            /\ UNCHANGED <<servers, serversOrder, connectionPool, initialized>>
    /\ Settle(subprocess)

\* lines 514-525: close() settled (closed = FALSE: it raised and the catch
\* of line 519 logged the error with the key); the loop awaits the next
\* entry's close(), or clears the maps
DisconnectClosed(t, closed) ==
    /\ task[t].op = "disconnect"
    /\ task[t].pc = "closing"
    /\ LET seen == task[t].seen \cup {task[t].key}
           rest == Unvisited(seen)
           logged == IF closed THEN task[t].logged
                     ELSE task[t].logged \cup {task[t].key}
       IN IF rest = <<>>
          THEN /\ ClearAll
               \* every entry set from now on is new to an iterator still running
               /\ task' = [u \in Tasks |->
                             IF u = t THEN [task[t] EXCEPT !.pc = "returned",
                                                           !.logged = logged,
                                                           !.seen = {},
                                                           !.conn = NoConn]
                             ELSE [task[u] EXCEPT !.seen = {}]]
          ELSE /\ task' = [task EXCEPT ![t].seen = seen,
                                       ![t].logged = logged,
                                       ![t].key = Head(rest),
                                       ![t].conn = servers[Head(rest)]]
               /\ UNCHANGED <<servers, serversOrder, connectionPool, initialized>>
    /\ Settle(IF closed THEN [subprocess EXCEPT ![task[t].conn].st = "closed"]
              ELSE subprocess)

(***************************************************************************)
(* The caller.                                                             *)
(***************************************************************************)
\* the caller has the call's outcome; the task can run another call
Finish(t) ==
    /\ task[t].pc \in {"returned", "raised"}
    /\ task' = [task EXCEPT ![t] = IdleTask]
    /\ UNCHANGED <<servers, serversOrder, connectionPool, initialized>>
    /\ Settle(subprocess)

Next ==
    \/ \E t \in Tasks, k \in Keys \cup {UnknownKey} : GetConnection(t, k) /\ UNCHANGED <<callerVars, trackerVars, appVars>>
    \/ \E t \in Tasks : ProbeOk(t) /\ UNCHANGED <<callerVars, trackerVars, appVars>>
    \/ \E t \in Tasks, exits \in BOOLEAN : ProbeFail(t, exits) /\ UNCHANGED <<callerVars, trackerVars, appVars>>
    \/ \E t \in Tasks : ConnectResolved(t) /\ UNCHANGED <<callerVars, trackerVars, appVars>>
    \/ \E t \in Tasks : GetConnectionBuilt(t) /\ UNCHANGED <<callerVars, trackerVars, appVars>>
    \/ \E t \in Tasks, exits \in BOOLEAN : GetConnectionBuildFailed(t, exits) /\ UNCHANGED <<callerVars, trackerVars, appVars>>
    \/ \E t \in Tasks : Initialize(t) /\ UNCHANGED <<callerVars, trackerVars, appVars>>
    \/ \E t \in Tasks : InitializeConnected(t) /\ UNCHANGED <<callerVars, trackerVars, appVars>>
    \/ \E t \in Tasks, exits \in BOOLEAN : InitializeConnectFailed(t, exits) /\ UNCHANGED <<callerVars, trackerVars, appVars>>
    \/ \E t \in Tasks : Disconnect(t) /\ UNCHANGED <<callerVars, trackerVars, appVars>>
    \/ \E t \in Tasks, closed \in BOOLEAN : DisconnectClosed(t, closed) /\ UNCHANGED <<callerVars, trackerVars, appVars>>
    \/ \E t \in Tasks : Finish(t) /\ UNCHANGED <<callerVars, trackerVars, appVars>>

Spec == Init /\ [][Next]_vars


(***************************************************************************)
(* callToolWithTimeout(serverKey, toolName, params, timeout), with time.   *)
(* One caller (the task Caller) makes the calls, one after the other; the  *)
(* steps of its getConnection are the pool's, and call.elapsed is the time *)
(* since callToolWithTimeout was called.                                   *)
(***************************************************************************)
Caller == "t1"

\* alt occurs in word: word.includes(alt)
Contains(word, alt) ==
    \E i \in 0..(Len(word) - Len(alt)) :
        \A j \in 1..Len(alt) : word[i + j] = alt[j]

\* The messages of the errors that end the race of line 360, each the
\* sequence of its characters.  Line 356: the call's own timer (the digits
\* of `Timeout after ${timeout}ms` are left out).
TimerFired == [message |-> <<"T","i","m","e","o","u","t"," ","a","f","t","e","r"," ","m","s">>]

\* line 130: the timer of the _sendRequest wrapper
RequestTimerFired == [message |-> <<"R","e","q","u","e","s","t"," ","t","i","m","e","o","u","t",":"," ","t","o","o","l","s","/","c","a","l","l">>]

\* the channel to the subprocess closed
ChannelClosed == [message |-> <<"C","o","n","n","e","c","t","i","o","n"," ","c","l","o","s","e","d">>]

\* what callTool can reject with
TransportErrors == {ChannelClosed, RequestTimerFired}

\* lines 364-376, the catch of callToolWithTimeout: an error whose message
\* has 'Timeout' or 'timeout' in it becomes the timeout descriptor, any
\* other is rethrown
Caught(error) ==
    IF \/ Contains(error.message, <<"T","i","m","e","o","u","t">>)
       \/ Contains(error.message, <<"t","i","m","e","o","u","t">>)
    THEN "timeout"
    ELSE "raised"

\* how long an operation that settles before its timer (of T seconds) can take
Within(T) == {d \in Delays : d < T}

\* When a request raced against a timer of T seconds fails: a subprocess that
\* runs on and does not answer fails it only by the timer; a closed channel
\* fails it at once or leaves it to the timer.
FailsAfter(id, exits, T) ==
    IF subprocess[id].st = "running" /\ ~exits THEN {T}
    ELSE Within(T) \cup {T}

Elapse(d) == call' = [call EXCEPT !.elapsed = @ + d]

\* line 346: the call starts with getConnection(serverKey)
CallToolWithTimeout(k, timeout) ==
    /\ call.pc = "idle"
    /\ GetConnection(Caller, k)
    /\ call' = [call EXCEPT !.pc = "getConnection", !.key = k,
                            !.timeout = timeout]

CallProbeOk(d) ==
    /\ call.pc = "getConnection"
    /\ d \in Within(ProbeTimeout)
    /\ ProbeOk(Caller)
    /\ Elapse(d)

CallProbeFail(exits, d) ==
    /\ call.pc = "getConnection"
    /\ task[Caller].pc = "probing"
    /\ d \in FailsAfter(task[Caller].conn, exits, ProbeTimeout)
    /\ ProbeFail(Caller, exits)
    /\ Elapse(d)

CallConnectResolved(d) ==
    /\ call.pc = "getConnection"
    /\ d \in Within(ConnectTimeout)
    /\ ConnectResolved(Caller)
    /\ Elapse(d)

CallConnectionBuilt(d) ==
    /\ call.pc = "getConnection"
    /\ d \in Within(ListToolsTimeout)
    /\ GetConnectionBuilt(Caller)
    /\ Elapse(d)

CallConnectionBuildFailed(exits, d) ==
    /\ call.pc = "getConnection"
    /\ ConnectRejects(Caller)
    /\ d \in FailsAfter(task[Caller].conn, exits,
                        IF task[Caller].pc = "connecting" THEN ConnectTimeout
                        ELSE ListToolsTimeout)
    /\ GetConnectionBuildFailed(Caller, exits)
    /\ Elapse(d)

\* line 346: getConnection raised; nothing in callToolWithTimeout catches it
CallConnectionRaised ==
    /\ call.pc = "getConnection"
    /\ task[Caller].pc = "raised"
    /\ Finish(Caller)
    /\ call' = [call EXCEPT !.pc = "done", !.result = "raised"]

\* lines 347-360: with the connection in hand startTime is taken, callTool is
\* sent and the timer of `timeout` is started
CallTool ==
    /\ call.pc = "getConnection"
    /\ task[Caller].pc = "returned"
    /\ Finish(Caller)
    /\ call' = [call EXCEPT !.pc = "callTool", !.conn = task[Caller].ret]

\* Raced without the reactions that Promise.race puts on its promises
Raced_Unwatched(promise) == [promise |-> promise, handled |-> FALSE]

\* line 360: Promise.race([callPromise, timeoutPromise]) puts its reactions
\* on both promises when it is called; the one that loses the race stays
\* pending with a reaction that has nothing left to do.  Nothing cancels the
\* request and nothing clears the timer.
Raced(promise) == [promise |-> promise, handled |-> TRUE]

\* lines 360-363: the tool answered before the timer; content[0] is returned
CallToolAnswered(d) ==
    /\ call.pc = "callTool"
    /\ Answers(call.conn)
    /\ d \in Within(call.timeout)
    /\ call' = [call EXCEPT !.pc = "done", !.result = "payload",
                            !.settled = "answered",
                            !.elapsed = @ + d,
                            !.abandoned = @ \cup {Raced("timeoutPromise")}]
    /\ UNCHANGED poolVars

\* lines 355-357, 364-374: the call's timer fired first; the catch makes a
\* timeout descriptor of its error
CallToolTimedOut ==
    /\ call.pc = "callTool"
    /\ call' = [call EXCEPT !.pc = "done", !.result = Caught(TimerFired),
                            !.settled = "timer",
                            !.elapsed = @ + call.timeout,
                            !.abandoned = @ \cup {Raced("callPromise")}]
    /\ UNCHANGED poolVars

\* lines 364-376: callTool rejected before the call's timer: the channel
\* closed, or the request timer of line 130 fired after its 20 s and the
\* subprocess runs on; the catch sorts the error by its message
CallToolRejected(d, error) ==
    /\ call.pc = "callTool"
    /\ d < call.timeout
    /\ \/ error = ChannelClosed /\ d \in Delays
       \/ error = RequestTimerFired /\ d = RequestTimer
    /\ call' = [call EXCEPT !.pc = "done", !.result = Caught(error),
                            !.settled = "rejected",
                            !.elapsed = @ + d,
                            !.abandoned = @ \cup {Raced("timeoutPromise")}]
    /\ UNCHANGED <<servers, serversOrder, connectionPool, initialized, task>>
    /\ Settle(Failed(call.conn, error = ChannelClosed))

\* the caller has control again, and can call once more
CallReturned ==
    /\ call.pc = "done"
    /\ call' = [NoCall EXCEPT !.last = call.result,
                              !.abandoned = call.abandoned,
                              !.unhandled = call.unhandled]
    /\ UNCHANGED poolVars

\* The promises of one kind that lost their races settle, at any later time
\* (before or after the caller has the call's outcome): the abandoned
\* request is answered or fails (rejected = TRUE), or the timer that was
\* never cleared fires and rejects timeoutPromise (line 357).  The race it
\* was part of is settled already, so its reaction changes nothing; a
\* rejected promise without a reaction is an unhandled rejection.
LateSettled(p, rejected) ==
    /\ p \in call.abandoned
    /\ p.promise = "timeoutPromise" => rejected
    /\ call' = [call EXCEPT !.abandoned = @ \ {p},
                            !.unhandled = @ \/ (rejected /\ ~p.handled)]
    /\ UNCHANGED poolVars

NextTimed ==
    \/ \E k \in Keys \cup {UnknownKey}, timeout \in ToolTimeouts :
          CallToolWithTimeout(k, timeout) /\ UNCHANGED <<gather, trackerVars, appVars>>
    \/ \E d \in Delays : CallProbeOk(d) /\ UNCHANGED <<gather, trackerVars, appVars>>
    \/ \E exits \in BOOLEAN, d \in Delays \cup {ProbeTimeout} :
          CallProbeFail(exits, d) /\ UNCHANGED <<gather, trackerVars, appVars>>
    \/ \E d \in Delays : CallConnectResolved(d) /\ UNCHANGED <<gather, trackerVars, appVars>>
    \/ \E d \in Delays : CallConnectionBuilt(d) /\ UNCHANGED <<gather, trackerVars, appVars>>
    \/ \E exits \in BOOLEAN,
          d \in Delays \cup {ConnectTimeout, ListToolsTimeout} :
          CallConnectionBuildFailed(exits, d) /\ UNCHANGED <<gather, trackerVars, appVars>>
    \/ CallConnectionRaised /\ UNCHANGED <<gather, trackerVars, appVars>>
    \/ CallTool /\ UNCHANGED <<gather, trackerVars, appVars>>
    \/ \E d \in Delays : CallToolAnswered(d) /\ UNCHANGED <<gather, trackerVars, appVars>>
    \/ CallToolTimedOut /\ UNCHANGED <<gather, trackerVars, appVars>>
    \/ \E d \in Delays \cup {RequestTimer}, error \in TransportErrors :
          CallToolRejected(d, error) /\ UNCHANGED <<gather, trackerVars, appVars>>
    \/ CallReturned /\ UNCHANGED <<gather, trackerVars, appVars>>
    \/ \E p \in call.abandoned, rejected \in BOOLEAN :
          LateSettled(p, rejected) /\ UNCHANGED <<gather, trackerVars, appVars>>

SpecTimed == Init /\ [][NextTimed]_vars

(***************************************************************************)
(* gatherData(query, brand) and what it calls.                             *)
(*                                                                         *)
(* A word is the sequence of its characters and a query the set of its     *)
(* words.  A regular expression of the code is the set of its              *)
(* alternatives; none has a space, so it matches the query when an         *)
(* alternative is found inside one word of it.                             *)
(***************************************************************************)
UpperCase == <<"A","B","C","D","E","F","G","H","I","J","K","L","M",
               "N","O","P","Q","R","S","T","U","V","W","X","Y","Z">>

LowerCase == <<"a","b","c","d","e","f","g","h","i","j","k","l","m",
               "n","o","p","q","r","s","t","u","v","w","x","y","z">>

\* the lower-case letter of every upper-case letter
LowerOf ==
    [c \in {UpperCase[i] : i \in 1..Len(UpperCase)} |->
        LowerCase[CHOOSE j \in 1..Len(UpperCase) : UpperCase[j] = c]]

IsUpper(c) == c \in DOMAIN LowerOf

\* String.prototype.toLowerCase, as the i flag applies it
ToLower(word) ==
    [i \in 1..Len(word) |-> IF IsUpper(word[i]) THEN LowerOf[word[i]] ELSE word[i]]

\* /alt1|alt2|.../i.test(query)
Test(regex, q) == \E word \in q, alt \in regex : Contains(ToLower(word), alt)

\* gatherData, line 392
QueryPatternJira ==
    {<<"j","i","r","a">>,
     <<"i","s","s","u","e">>,
     <<"t","i","c","k","e","t">>,
     <<"s","p","r","i","n","t">>,
     <<"b","a","c","k","l","o","g">>,
     <<"e","p","i","c">>,
     <<"s","t","o","r","y">>}

\* gatherData, line 393
QueryPatternConfluence ==
    {<<"c","o","n","f","l","u","e","n","c","e">>,
     <<"d","o","c">>,
     <<"d","o","c","u","m","e","n","t","a","t","i","o","n">>,
     <<"p","r","d">>,
     <<"s","p","e","c">>,
     <<"w","i","k","i">>}

\* gatherData, line 394
QueryPatternGoogleDrive ==
    {<<"d","r","i","v","e">>,
     <<"g","o","o","g","l","e">>,
     <<"d","o","c","u","m","e","n","t">>,
     <<"s","h","e","e","t">>,
     <<"f","i","l","e">>,
     <<"f","o","l","d","e","r">>}

\* gatherData, line 395
QueryPatternBoth ==
    {<<"p","r","o","j","e","c","t">>,
     <<"s","t","a","t","u","s">>,
     <<"u","p","d","a","t","e">>,
     <<"p","r","o","g","r","e","s","s">>}

\* queryAtlassian, line 183
JiraPattern ==
    {<<"j","i","r","a">>,
     <<"i","s","s","u","e">>,
     <<"t","i","c","k","e","t">>,
     <<"s","p","r","i","n","t">>,
     <<"b","u","g">>,
     <<"t","a","s","k">>}

\* queryAtlassian, line 227
ConfluencePattern ==
    {<<"c","o","n","f","l","u","e","n","c","e">>,
     <<"d","o","c">>,
     <<"p","r","d">>,
     <<"s","p","e","c">>,
     <<"w","i","k","i">>,
     <<"c","h","a","r","t","e","r">>,
     <<"p","r","o","j","e","c","t">>}

\* query.match(/\b([A-Z]{2,})\b/), line 197: a word of the query is a run of
\* two or more capital letters
ProjectMatch(q) ==
    \E word \in q : Len(word) >= 2 /\ \A i \in 1..Len(word) : IsUpper(word[i])

\* the words of a text: its runs of characters other than the space
Words(text) ==
    LET Space(i) == i < 1 \/ i > Len(text) \/ text[i] = " "
        Starts == {i \in 1..Len(text) : ~Space(i) /\ Space(i - 1)}
        EndOf(i) == CHOOSE j \in i..Len(text) :
                        /\ \A k \in i..j : ~Space(k)
                        /\ Space(j + 1)
    IN {SubSeq(text, i, EndOf(i)) : i \in Starts}

\* the words a query is made of
Vocabulary ==
    {<<"j","i","r","a">>,
     <<"c","o","n","f","l","u","e","n","c","e">>,
     <<"b","a","c","k","l","o","g">>,
     <<"p","r","o","j","e","c","t">>,
     <<"f","i","l","e">>,
     <<"P","R","O","J">>}

Queries == {q \in SUBSET Vocabulary : Cardinality(q) <= MaxWords}

(***************************************************************************)
(* Values the code builds.                                                 *)
(***************************************************************************)
\* result.content[0] of a tool call that answered with content
Payload(toolName) == [type |-> "text", text |-> toolName]

\* callToolWithTimeout, lines 369-373
RequestTimeout ==
    [error |-> "Request timeout",
     message |-> "The request took longer than the timeout", partial |-> TRUE]

\* an Error object thrown by getConnection, connectServer or the transport
ConnectionError == [message |-> "Connection timeout"]

\* lastError?.message || lastError, line 337: lastError is an Error object
\* (line 329) or a string (line 327)
MessageOf(lastError) ==
    IF Has(lastError, "message") THEN lastError.message ELSE lastError.string

\* callToolWithRetry, lines 335-339
FailedAfter(retry) ==
    [error |-> "Failed after " \o ToString(retry.maxRetries + 1) \o " attempts",
     message |-> MessageOf(retry.lastError), partial |-> TRUE]

\* queryAtlassian, lines 211-214
JiraSearchFailed ==
    [error |-> "Jira search failed - API may be slow",
     suggestion |-> "Try searching for specific project keys"]

\* queryAtlassian, lines 240-243
ConfluenceSearchFailed ==
    [error |-> "Confluence search failed - API may be slow",
     suggestion |-> "Try searching with specific page titles"]

(***************************************************************************)
(* The code between two awaits of a gatherData call, as functions of the   *)
(* call's state g.                                                         *)
(***************************************************************************)
Logged(g, k, what) == [g EXCEPT !.log[k] = @ \cup {what}]

\* callToolWithRetry is called: attempt 0 calls callToolWithTimeout at once
CallToolWithRetry(g, site, serverKey, toolName, timeout, maxRetries) ==
    [g EXCEPT !.pc = "callToolWithTimeout",
              !.retry = [NoRetry EXCEPT !.site = site,
                                        !.serverKey = serverKey,
                                        !.toolName = toolName,
                                        !.timeout = timeout,
                                        !.maxRetries = maxRetries]]

\* CheckGoogleDrive without the test of lines 412-413
CheckGoogleDrive_Always(g) == [g EXCEPT !.pc = "queryGoogleDrive"]

\* gatherData, lines 411-423: Google Drive is queried, or results returned
CheckGoogleDrive(g) ==
    IF Test(QueryPatternGoogleDrive, g.query) \/ Test(QueryPatternBoth, g.query)
    THEN [g EXCEPT !.pc = "queryGoogleDrive"]
    ELSE [g EXCEPT !.pc = "returned"]

\* gatherData, lines 388-409: Atlassian is queried, or Google Drive checked
CheckAtlassian(g) ==
    IF \/ Test(QueryPatternJira, g.query)
       \/ Test(QueryPatternConfluence, g.query)
       \/ Test(QueryPatternBoth, g.query)
    THEN [g EXCEPT !.pc = "queryAtlassian"]
    ELSE CheckGoogleDrive(g)

\* queryAtlassian returns v (line 254 or 257), line 404 stores it
QueryAtlassianReturns(g, v) ==
    CheckGoogleDrive([g EXCEPT !.results = SetProp(@, "atlassian", v)])

\* queryAtlassian, lines 227-254
CheckConfluence(g) ==
    IF Test(ConfluencePattern, g.query)
    THEN CallToolWithRetry(g, "confluence", "atlassian", "confluence_search",
                           10, 2)
    ELSE QueryAtlassianReturns(g, g.atlassian)

\* queryAtlassian, lines 180-191
CheckJira(g) ==
    IF Test(JiraPattern, g.query)
    THEN CallToolWithRetry(g, "jira", "atlassian", "jira_search", 10, 2)
    ELSE CheckConfluence(g)

\* JiraResult that searches jira once more after a failed search
JiraResult_Again(g, v) ==
    IF Success(v)
    THEN CheckConfluence([g EXCEPT !.atlassian = SetProp(@, "jira", v)])
    ELSE CallToolWithRetry(g, "jira", "atlassian", "jira_search", 10, 2)

\* queryAtlassian, lines 193-216: the result of the first jira search
JiraResult(g, v) ==
    IF Success(v)
    THEN CheckConfluence([g EXCEPT !.atlassian = SetProp(@, "jira", v)])
    ELSE IF ProjectMatch(g.query)
    THEN CallToolWithRetry(g, "jiraProject", "atlassian", "jira_search", 10, 1)
    ELSE CheckConfluence([g EXCEPT !.atlassian =
                                      SetProp(@, "jira", JiraSearchFailed)])

\* queryAtlassian, lines 205-216: the result of the project-specific search
JiraProjectResult(g, v) ==
    CheckConfluence([g EXCEPT !.atlassian =
                        SetProp(@, "jira", IF Success(v) THEN v
                                           ELSE JiraSearchFailed)])

\* queryAtlassian, lines 237-254
ConfluenceResult(g, v) ==
    LET found == SetProp(g.atlassian, "confluence",
                         IF Success(v) THEN v ELSE ConfluenceSearchFailed)
    IN QueryAtlassianReturns([g EXCEPT !.atlassian = found], found)

\* queryGoogleDrive returns v (line 298 or 301), line 416 stores it, line 423
QueryGoogleDriveReturns(g, v) ==
    [g EXCEPT !.results = SetProp(@, "googleDrive", v), !.pc = "returned"]

\* QueryAtlassianCatch without a catch here or in gatherData: the error gets
\* out of gatherData
QueryAtlassianCatch_Escapes(g, error) == [g EXCEPT !.pc = "raised"]

\* queryAtlassian, lines 255-258: its catch
QueryAtlassianCatch(g, error) ==
    QueryAtlassianReturns(g, [error |-> error.message])

\* queryGoogleDrive, lines 299-305: its catch
QueryGoogleDriveCatch(g, error) ==
    QueryGoogleDriveReturns(g, [error |-> error.message,
                                suggestion |-> "Try searching with more specific terms"])

\* MoreAttempts with the loop running once more
MoreAttempts_OneMore(retry) == retry.attempt + 1 <= retry.maxRetries + 1

\* callToolWithRetry, line 314: attempt++ ; attempt <= maxRetries
MoreAttempts(retry) == retry.attempt + 1 <= retry.maxRetries

\* BackoffDelay with the same delay before every attempt
BackoffDelay_Flat(attempt) == 2

\* callToolWithRetry, line 319: Math.pow(2, attempt) * 1000 milliseconds, in
\* seconds
BackoffDelay(attempt) == 2 ^ attempt

\* AttemptFailed with a loop that never runs out of attempts
AttemptFailed_Again(g, lastError) ==
    [g EXCEPT !.pc = "backoff",
              !.retry = [@ EXCEPT !.lastError = lastError,
                                  !.attempt = @ + 1, !.waited = 0]]

\* callToolWithRetry, lines 314-339: an attempt failed with lastError; the
\* loop waits before the next attempt or, out of attempts, the call returns
\* the failure descriptor
AttemptFailed(g, lastError) ==
    LET retry == [g.retry EXCEPT !.lastError = lastError] IN
    IF MoreAttempts(retry)
    THEN [g EXCEPT !.pc = "backoff",
                   !.retry = [retry EXCEPT !.attempt = @ + 1, !.waited = 0]]
    ELSE [g EXCEPT !.pc = "callToolWithRetry.returned",
                   !.retry = [retry EXCEPT !.returned = FailedAfter(retry)]]

\* callToolWithRetry, lines 322-331: callToolWithTimeout settled with
\* outcome, a returned value or a raised error
Attempted(g, outcome) ==
    LET h == [g EXCEPT !.retry.outcomes = Append(@, outcome)] IN
    IF Has(outcome, "raised") THEN AttemptFailed(h, outcome.raised)
    ELSE IF Success(outcome.value)
    THEN [h EXCEPT !.pc = "callToolWithRetry.returned",
                   !.retry.returned = outcome.value]
    ELSE AttemptFailed(h, [string |-> IF Truthy(outcome.value)
                                      THEN outcome.value.error
                                      ELSE "Unknown error"])

\* What a callToolWithTimeout(serverKey, toolName, params, timeout) call can
\* come to: content[0] of the answer, undefined when the answer's content is
\* empty, the timeout descriptor, or an error raised by getConnection or
\* by the transport.
OutcomeKinds == {"payload", "empty", "timeout", "raised"}

CallToolWithTimeoutOutcome(kind, toolName) ==
    CASE kind = "payload" -> [value |-> Payload(toolName)]
      [] kind = "empty"   -> [value |-> Undefined]
      [] kind = "timeout" -> [value |-> RequestTimeout]
      [] kind = "raised"  -> [raised |-> ConnectionError]

(***************************************************************************)
(* The steps of a gatherData call.                                         *)
(***************************************************************************)
\* lines 383-386 (and on, when already initialized)
GatherData(q) ==
    /\ gather.pc = "idle"
    /\ LET g == [NoGather EXCEPT !.query = q] IN
       gather' = IF initialized THEN CheckAtlassian(g)
                 ELSE [g EXCEPT !.pc = "initialize"]
    /\ UNCHANGED <<poolVars, call, trackerVars, appVars>>

\* lines 385-409: initialize() returned; it catches every connectServer
\* error itself (lines 53-57) and always ends with initialized = true
GatherInitialized ==
    /\ gather.pc = "initialize"
    /\ initialized' = TRUE
    /\ gather' = CheckAtlassian(gather)
    /\ UNCHANGED <<servers, serversOrder, connectionPool, subprocess, leaked,
                   calls, task, call, trackerVars, appVars>>

\* queryAtlassian, lines 176-191: getConnection('atlassian') settled
QueryAtlassian(connected) ==
    /\ gather.pc = "queryAtlassian"
    /\ gather' =
          IF connected
          THEN CheckJira([Logged(gather, "atlassian", "connected")
                             EXCEPT !.atlassian = EmptyObject])
          ELSE QueryAtlassianCatch(Logged(gather, "atlassian", "raised"),
                                   ConnectionError)
    /\ UNCHANGED <<poolVars, call, trackerVars, appVars>>

\* queryGoogleDrive, lines 265-296: getConnection('googleDrive') settled
QueryGoogleDrive(connected) ==
    /\ gather.pc = "queryGoogleDrive"
    /\ gather' =
          IF connected
          THEN CallToolWithRetry(Logged(gather, "googleDrive", "connected"),
                                 "googleDrive", "googleDrive",
                                 "drive_search_files", 15, 2)
          ELSE QueryGoogleDriveCatch(Logged(gather, "googleDrive", "raised"),
                                     ConnectionError)
    /\ UNCHANGED <<poolVars, call, trackerVars, appVars>>

\* callToolWithRetry, line 322: callToolWithTimeout settled
CallToolWithTimeoutSettled(kind) ==
    /\ gather.pc = "callToolWithTimeout"
    /\ gather' = Attempted(Logged(gather, gather.retry.toolName, kind),
                           CallToolWithTimeoutOutcome(kind, gather.retry.toolName))
    /\ UNCHANGED <<poolVars, call, trackerVars, appVars>>

\* callToolWithRetry, line 319: a second goes by while the call waits for
\* the timer
BackoffTick ==
    /\ gather.pc = "backoff"
    /\ gather.retry.waited < BackoffDelay(gather.retry.attempt)
    /\ gather' = [gather EXCEPT !.retry.waited = @ + 1]
    /\ UNCHANGED <<poolVars, call, trackerVars, appVars>>

\* callToolWithRetry, lines 316-322: the timer of line 319 fires, 2^attempt
\* seconds after it was set; callToolWithTimeout is called again
BackoffElapsed ==
    /\ gather.pc = "backoff"
    /\ gather.retry.waited = BackoffDelay(gather.retry.attempt)
    /\ gather' = [gather EXCEPT !.pc = "callToolWithTimeout",
                                !.retry.delays = Append(@, gather.retry.waited)]
    /\ UNCHANGED <<poolVars, call, trackerVars, appVars>>

\* how a callToolWithRetry call ended, from the value it returned: with a
\* result (line 324) or out of attempts (lines 335-339)
HowClosed(v) == IF Success(v) THEN "success" ELSE "exhausted"

\* the caller of callToolWithRetry goes on with the returned value; the
\* frame is gone
CallToolWithRetryReturned ==
    /\ gather.pc = "callToolWithRetry.returned"
    /\ LET v == gather.retry.returned
           g == [gather EXCEPT !.retry = NoRetry,
                               !.closed = SetProp(@, gather.retry.site,
                                                  HowClosed(v))]
       IN gather' = CASE gather.retry.site = "jira" -> JiraResult(g, v)
                      [] gather.retry.site = "jiraProject" ->
                            JiraProjectResult(g, v)
                      [] gather.retry.site = "confluence" ->
                            ConfluenceResult(g, v)
                      [] gather.retry.site = "googleDrive" ->
                            QueryGoogleDriveReturns(g, v)
    /\ UNCHANGED <<poolVars, call, trackerVars, appVars>>

\* the caller of gatherData has the results
GatherDataReturned ==
    /\ gather.pc = "returned"
    /\ gather' = NoGather
    /\ UNCHANGED <<poolVars, call, trackerVars, appVars>>

NextGather ==
    \/ \E q \in Queries : GatherData(q)
    \/ GatherInitialized
    \/ \E connected \in BOOLEAN : QueryAtlassian(connected)
    \/ \E connected \in BOOLEAN : QueryGoogleDrive(connected)
    \/ \E kind \in OutcomeKinds : CallToolWithTimeoutSettled(kind)
    \/ BackoffTick
    \/ BackoffElapsed
    \/ CallToolWithRetryReturned
    \/ GatherDataReturned

SpecGather == Init /\ [][NextGather]_vars

\* A step of the gatherData call in flight.  Each one ends a suspension that
\* the code bounds with a timer: the probe of getConnection (line 76, 2 s),
\* the handshake and the first listTools of connectServer (lines 141 and
\* 150, 10 s and 5 s), the tool call of callToolWithTimeout (line 357) and
\* the backoff of callToolWithRetry (line 319); the others are the
\* continuations of a settled await.
GatherStep ==
    \/ GatherInitialized
    \/ \E connected \in BOOLEAN : QueryAtlassian(connected)
    \/ \E connected \in BOOLEAN : QueryGoogleDrive(connected)
    \/ \E kind \in OutcomeKinds : CallToolWithTimeoutSettled(kind)
    \/ BackoffTick
    \/ BackoffElapsed
    \/ CallToolWithRetryReturned
    \/ GatherDataReturned

\* gatherData with timers that fire and continuations that run: a step of
\* the call in flight that stays possible is taken.  Nothing makes a caller
\* call gatherData.
SpecGatherFair == SpecGather /\ WF_vars(GatherStep)

(***************************************************************************)
(* healthCheck().  One caller (the task Caller) makes the calls, one after *)
(* the other; the steps of its getConnection are the pool's.               *)
(***************************************************************************)
\* lines 17-41: serverConfigs, as far as healthCheck reads it
ServerConfigs ==
    [atlassian   |-> [name |-> "Atlassian (Jira/Confluence)", enabled |-> TRUE],
     googleDrive |-> [name |-> "Google Drive", enabled |-> TRUE]]

\* lines 460-461: the keys the loop does not skip, in the order of the object
EnabledKeys == SelectSeq(ServerKeys, LAMBDA k : ServerConfigs[k].enabled)

\* line 469: the timer listTools is raced against
HealthTimeout == 3

HealthCheckTimeout == [message |-> "Health check timeout"]

\* lines 472-476; probe keeps how the try block of the key ended
Healthy(h, key, responseTime) ==
    [h EXCEPT !.health = SetProp(@, key, [status |-> "healthy",
                                          responseTime |-> responseTime,
                                          name |-> ServerConfigs[key].name]),
              !.probe = SetProp(@, key, "answered")]

\* a catch block that writes no entry
Unhealthy_NoEntry(h, key, error, how) ==
    [h EXCEPT !.probe = SetProp(@, key, how)]

\* lines 477-483
Unhealthy(h, key, error, how) ==
    [h EXCEPT !.health = SetProp(@, key, [status |-> "unhealthy",
                                          error |-> error.message,
                                          name |-> ServerConfigs[key].name]),
              !.probe = SetProp(@, key, how)]

\* lines 457-463: the loop's first getConnection
HealthCheck ==
    /\ health.pc = "idle"
    /\ Len(EnabledKeys) > 0
    /\ GetConnection(Caller, EnabledKeys[1])
    /\ health' = [NoHealth EXCEPT !.pc = "getConnection", !.i = 1]
    /\ UNCHANGED <<callerVars, trackerVars, agentVars>>

\* lines 463-471: getConnection returned the connection; start is taken and
\* listTools is sent, raced against the 3 s timer
HealthConnected ==
    /\ health.pc = "getConnection"
    /\ task[Caller].pc = "returned"
    /\ Finish(Caller)
    /\ health' = [health EXCEPT !.pc = "listTools", !.conn = task[Caller].ret]
    /\ UNCHANGED <<callerVars, trackerVars, agentVars>>

\* lines 463, 477-483: getConnection raised, the connection could not be
\* built; the catch writes the key's entry
HealthConnectionRaised ==
    /\ health.pc = "getConnection"
    /\ task[Caller].pc = "raised"
    /\ Finish(Caller)
    /\ health' = [Unhealthy(health, EnabledKeys[health.i], ConnectionError,
                            "notBuilt")
                     EXCEPT !.pc = "loop"]
    /\ UNCHANGED <<callerVars, trackerVars, agentVars>>

\* lines 466-476: listTools answered after d seconds, before the timer
HealthListed(d) ==
    /\ health.pc = "listTools"
    /\ Answers(health.conn)
    /\ d \in Within(HealthTimeout)
    /\ health' = [Healthy(health, EnabledKeys[health.i], d)
                     EXCEPT !.pc = "loop", !.conn = NoConn]
    /\ UNCHANGED <<poolVars, callerVars, trackerVars, agentVars>>

\* lines 466-471, 477-483: the timer fired first, or the channel closed
\* (exits); the catch writes the key's entry
HealthListFailed(exits) ==
    /\ health.pc = "listTools"
    /\ health' = [Unhealthy(health, EnabledKeys[health.i],
                            IF exits THEN ChannelClosed ELSE HealthCheckTimeout,
                            IF exits THEN "closed" ELSE "timeout")
                     EXCEPT !.pc = "loop", !.conn = NoConn]
    /\ UNCHANGED <<servers, serversOrder, connectionPool, initialized, task>>
    /\ Settle(Failed(health.conn, exits))
    /\ UNCHANGED <<callerVars, trackerVars, agentVars>>

\* lines 460-463, 486: the loop goes to the next enabled key and its
\* getConnection, or healthCheck returns health
HealthLoop ==
    /\ health.pc = "loop"
    /\ IF health.i < Len(EnabledKeys)
       THEN /\ GetConnection(Caller, EnabledKeys[health.i + 1])
            /\ health' = [health EXCEPT !.pc = "getConnection", !.i = @ + 1]
       ELSE /\ health' = [health EXCEPT !.pc = "returned"]
            /\ UNCHANGED poolVars
    /\ UNCHANGED <<callerVars, trackerVars, agentVars>>

\* the caller has the report, and can call once more
HealthCheckReturned ==
    /\ health.pc = "returned"
    /\ health' = NoHealth
    /\ UNCHANGED <<poolVars, callerVars, trackerVars, agentVars>>

NextHealth ==
    \/ HealthCheck
    \/ ProbeOk(Caller) /\ UNCHANGED <<callerVars, trackerVars, appVars>>
    \/ \E exits \in BOOLEAN :
          ProbeFail(Caller, exits) /\ UNCHANGED <<callerVars, trackerVars, appVars>>
    \/ ConnectResolved(Caller) /\ UNCHANGED <<callerVars, trackerVars, appVars>>
    \/ GetConnectionBuilt(Caller) /\ UNCHANGED <<callerVars, trackerVars, appVars>>
    \/ \E exits \in BOOLEAN :
          GetConnectionBuildFailed(Caller, exits)
          /\ UNCHANGED <<callerVars, trackerVars, appVars>>
    \/ HealthConnected
    \/ HealthConnectionRaised
    \/ \E d \in Delays : HealthListed(d)
    \/ \E exits \in BOOLEAN : HealthListFailed(exits)
    \/ HealthLoop
    \/ HealthCheckReturned

SpecHealth == Init /\ [][NextHealth]_vars

(***************************************************************************)
(* TimeoutRecoveryManager: the performance tracker and the recovery        *)
(* strategies.                                                             *)
(***************************************************************************)
\* line 173: the durations kept per tool
WindowCapacity == 50

\* line 145: the failures kept per tool
FailureCapacity == 10

\* successful calls recorded in a behaviour of SpecTracker
MaxSuccesses == 52

\* the first successful calls of SpecTracker, whose durations vary
MaxVaried == 2

\* successful calls recorded in a behaviour of SpecRecovery
MaxSamples == 6

\* failed calls recorded in a behaviour
MaxFailures == 1

\* the attempt numbers getNextStrategy is called with
MaxAttemptNumber == 4

\* the attempts formatTimeoutError is called with
MaxAttemptsMade == 3

\* the durations of successful calls, in milliseconds
Durations == {101, 13000}

SteadyDuration == 101

\* the duration of a failed call: the default timeout of a call
FailureDurations == {15000}

\* the baseTimeout arguments of getSuggestedTimeout
BaseTimeouts == {5000, 15000}

\* the tool whose calls are recorded
RecordedTool == "jira"

\* the params and the error of a failed request
RequestParams == [query |-> "sprint"]

RequestTimedOut == [message |-> "Request timeout"]

\* TimeoutRecoveryManager.strategies: per tool class, in configured order;
\* apply names the strategy's apply function (see ApplyFunction)
Strategies ==
    [googleDrive |->
        <<[name |-> "reduce_pageSize",
           description |-> "Get only 5 most recent items",
           apply |-> "pageSize"],
          [name |-> "narrow_by_folder",
           description |-> "Search in specific folder",
           apply |-> "folder"],
          [name |-> "increase_timeout",
           description |-> "Wait up to 30 seconds",
           apply |-> "same", timeoutOverride |-> 30000]>>,
     jira |->
        <<[name |-> "limit_results",
           description |-> "Get only 3 most recent issues",
           apply |-> "limit"],
          [name |-> "project_specific",
           description |-> "Search in specific project",
           apply |-> "project"],
          [name |-> "increase_timeout",
           description |-> "Wait up to 25 seconds",
           apply |-> "same", timeoutOverride |-> 25000]>>,
     confluence |->
        <<[name |-> "limit_results",
           description |-> "Get only 3 most recent pages",
           apply |-> "limit"],
          [name |-> "space_specific",
           description |-> "Search in specific space",
           apply |-> "space"],
          [name |-> "increase_timeout",
           description |-> "Wait up to 25 seconds",
           apply |-> "same", timeoutOverride |-> 25000]>>]

\* the tool classes that have a strategy list
ToolClasses == DOMAIN Strategies

\* a tool name that is no key of strategies: the MCP tool name of a request
UnconfiguredTool == "jira_search"

Tools == ToolClasses \cup {UnconfiguredTool}

\* the apply functions of the strategies
ApplyFunction(apply, params, context) ==
    CASE apply = "pageSize" -> SetProp(params, "pageSize", 5)
      [] apply = "limit" -> SetProp(params, "limit", 3)
      [] apply = "folder" ->
            IF Has(context, "suggestedFolder")
            THEN SetProp(params, "folderId", context.suggestedFolder)
            ELSE params
      [] apply = "project" ->
            IF Has(context, "projectKey")
            THEN SetProp(params, "jql", "project = " \o context.projectKey
                                        \o " ORDER BY updated DESC")
            ELSE params
      [] apply = "space" ->
            IF Has(context, "spaceKey")
            THEN SetProp(params, "query",
                         "space=" \o context.spaceKey \o " AND "
                         \o (IF Has(params, "query") /\ params.query # ""
                             THEN params.query ELSE "type=page"))
            ELSE params
      [] OTHER -> params

\* a JavaScript number that is a quotient of two integers, kept exact
Frac(n, d) == [num |-> n, den |-> d]

Plus(a, b) == Frac(a.num * b.den + b.num * a.den, a.den * b.den)

LessEq(a, b) == a.num * b.den <= b.num * a.den

\* Math.min of two quotients
MinOf(a, b) == IF LessEq(a, b) THEN a ELSE b

\* Math.round of a quotient that is not negative
Round(a) == (2 * a.num + a.den) \div (2 * a.den)

\* Math.round(a * k)
RoundTimes(a, k) == Round(Frac(a.num * k, a.den))

RECURSIVE Insert(_, _)
\* x put into the ascending sequence s
Insert(x, s) ==
    IF s = <<>> THEN <<x>>
    ELSE IF x <= Head(s) THEN <<x>> \o s
    ELSE <<Head(s)>> \o Insert(x, Tail(s))

RECURSIVE SortAscending(_)
\* [...durations].sort((a, b) => a - b)
SortAscending(s) ==
    IF s = <<>> THEN <<>> ELSE Insert(Head(s), SortAscending(Tail(s)))

RECURSIVE Sum(_)
\* sorted.reduce((a, b) => a + b, 0)
Sum(s) == IF s = <<>> THEN 0 ELSE Head(s) + Sum(Tail(s))

\* Math.floor(n * 0.5) and Math.floor(n * 0.95); the products of a length up
\* to WindowCapacity by 0.5 and by 0.95 round to these integers
P50Index(n) == n \div 2

P95Index(n) == (n * 95) \div 100

\* PerformanceStats without the sort of line 189
PerformanceStats_Unsorted(metrics) ==
    LET sorted == metrics.durations IN
    [p50 |-> sorted[P50Index(Len(sorted)) + 1],
     p95 |-> sorted[P95Index(Len(sorted)) + 1],
     average |-> Frac(Sum(sorted), Len(sorted)),
     successRate |-> Frac(metrics.successCount,
                          metrics.successCount + metrics.failureCount),
     sampleSize |-> Len(sorted)]

\* getPerformanceStats, lines 189-199: the statistics of a metrics entry that
\* has durations; sequences are indexed from 1
PerformanceStats(metrics) ==
    LET sorted == SortAscending(metrics.durations) IN
    [p50 |-> sorted[P50Index(Len(sorted)) + 1],
     p95 |-> sorted[P95Index(Len(sorted)) + 1],
     average |-> Frac(Sum(sorted), Len(sorted)),
     successRate |-> Frac(metrics.successCount,
                          metrics.successCount + metrics.failureCount),
     sampleSize |-> Len(sorted)]

\* TimeoutRecoveryManager.getPerformanceStats
GetPerformanceStats(tool) ==
    IF ~Has(performanceMetrics, tool) THEN Null
    ELSE IF Len(performanceMetrics[tool].durations) = 0 THEN Null
    ELSE PerformanceStats(performanceMetrics[tool])

\* getNextStrategy that gives the last strategy again once the list is used up
GetNextStrategy_Repeats(tool, attemptNumber) ==
    IF tool \notin ToolClasses THEN Null
    ELSE IF attemptNumber >= Len(Strategies[tool])
    THEN Strategies[tool][Len(Strategies[tool])]
    ELSE Strategies[tool][attemptNumber + 1]

\* TimeoutRecoveryManager.getNextStrategy
GetNextStrategy(tool, attemptNumber) ==
    IF tool \notin ToolClasses THEN Null
    ELSE IF attemptNumber >= Len(Strategies[tool]) THEN Null
    ELSE Strategies[tool][attemptNumber + 1]

\* TimeoutRecoveryManager.applyStrategy
ApplyStrategy(strategy, params, context) ==
    [params |-> ApplyFunction(strategy.apply, params, context),
     timeout |-> IF Has(strategy, "timeoutOverride")
                 THEN strategy.timeoutOverride ELSE 15000,
     description |-> strategy.description]

\* Math.ceil(p95 * 1.2): the product of an integer by 1.2 rounds to no more
\* than the exact product, so the ceiling is that of 6 * p95 / 5
Suggested(p95) == (6 * p95 + 4) \div 5

\* getSuggestedTimeout without the cap of line 241
GetSuggestedTimeout_NoCap(tool, baseTimeout) ==
    LET stats == GetPerformanceStats(tool) IN
    IF stats = Null THEN baseTimeout
    ELSE IF stats.sampleSize < 5 THEN baseTimeout
    ELSE Suggested(stats.p95)

\* TimeoutRecoveryManager.getSuggestedTimeout
GetSuggestedTimeout(tool, baseTimeout) ==
    LET stats == GetPerformanceStats(tool) IN
    IF stats = Null THEN baseTimeout
    ELSE IF stats.sampleSize < 5 THEN baseTimeout
    ELSE IF Suggested(stats.p95) <= baseTimeout * 2
    THEN Suggested(stats.p95) ELSE baseTimeout * 2

\* TimeoutRecoveryManager.estimateSuccessRate
EstimateSuccessRate(tool, strategy, stats) ==
    IF stats = Null THEN Frac(1, 2)
    ELSE LET base == IF stats.successRate.num = 0 THEN Frac(1, 2)
                     ELSE stats.successRate
             rate == IF strategy.name \in {"reduce_pageSize", "limit_results"}
                     THEN Plus(base, Frac(1, 5))
                     ELSE IF strategy.name = "increase_timeout"
                             /\ stats.p95 > 12000
                     THEN Plus(base, Frac(1, 10))
                     ELSE base
         IN MinOf(rate, Frac(19, 20))

\* the option generateRecoveryOptions pushes last
ManualOption(tool) ==
    [id |-> tool \o "_manual", action |-> "manual_check",
     description |-> "Check " \o tool \o " manually",
     params |-> Null, timeout |-> 0, estimatedSuccessRate |-> Frac(1, 1)]

\* generateRecoveryOptions without the push of lines 265-272
GenerateRecoveryOptions_NoManual(tool, originalParams, context) ==
    LET strategies == IF tool \in ToolClasses THEN Strategies[tool] ELSE <<>>
        stats == GetPerformanceStats(tool)
    IN [i \in 1..Len(strategies) |->
          LET applied == ApplyStrategy(strategies[i], originalParams, context)
          IN [id |-> tool \o "_" \o strategies[i].name,
              action |-> strategies[i].name,
              description |-> strategies[i].description,
              params |-> applied.params,
              timeout |-> applied.timeout,
              estimatedSuccessRate |->
                  EstimateSuccessRate(tool, strategies[i], stats)]]

\* TimeoutRecoveryManager.generateRecoveryOptions: an option per strategy of
\* the tool class, then the manual check
GenerateRecoveryOptions(tool, originalParams, context) ==
    LET strategies == IF tool \in ToolClasses THEN Strategies[tool] ELSE <<>>
        stats == GetPerformanceStats(tool)
    IN [i \in 1..Len(strategies) |->
          LET applied == ApplyStrategy(strategies[i], originalParams, context)
          IN [id |-> tool \o "_" \o strategies[i].name,
              action |-> strategies[i].name,
              description |-> strategies[i].description,
              params |-> applied.params,
              timeout |-> applied.timeout,
              estimatedSuccessRate |->
                  EstimateSuccessRate(tool, strategies[i], stats)]]
       \o <<ManualOption(tool)>>

\* TimeoutRecoveryManager.generateErrorSummary
GenerateErrorSummary(tool, attemptsMade, stats) ==
    "The " \o tool \o " API timed out after " \o ToString(attemptsMade)
    \o " attempts. "
    \o (IF stats # Null /\ stats.sampleSize > 5
        THEN "Recent performance shows "
             \o ToString(RoundTimes(stats.successRate, 100))
             \o "% success rate with typical response times of "
             \o ToString(Round(Frac(stats.p95, 1000))) \o "s. "
        ELSE "")
    \o "You can try a different approach or check the service manually."

\* TimeoutRecoveryManager.formatTimeoutError
FormatTimeoutError(tool, params, attemptsMade, context) ==
    LET options == GenerateRecoveryOptions(tool, params, context)
        stats == GetPerformanceStats(tool)
    IN [error |-> "TIMEOUT_ERROR", tool |-> tool,
        attemptsMade |-> attemptsMade,
        message |-> tool \o " is responding slowly",
        performanceContext |->
            IF stats # Null
            THEN [averageResponseTime |-> Round(stats.average),
                  p95ResponseTime |-> stats.p95,
                  recentSuccessRate |-> RoundTimes(stats.successRate, 100)]
            ELSE Null,
        recoveryOptions |-> options,
        suggestedAction |-> IF Len(options) = 0 THEN Undefined
                            ELSE options[1],
        summary |-> GenerateErrorSummary(tool, attemptsMade, stats)]

\* the metrics entry updatePerformanceMetrics creates, lines 158-162
NewMetrics == [durations |-> <<>>, successCount |-> 0, failureCount |-> 0]

\* MetricsOf that takes a new entry although the tool has one
MetricsOf_Fresh(tool) == NewMetrics

\* performanceMetrics.get(tool) once lines 157-163 have run
MetricsOf(tool) ==
    IF Has(performanceMetrics, tool) THEN performanceMetrics[tool]
    ELSE NewMetrics

\* lines 170-175 without the shift
Pushed_NoShift(durations, duration) == Append(durations, duration)

\* lines 170-175: the duration is pushed, and the oldest one is dropped when
\* the window is over its capacity
Pushed(durations, duration) ==
    IF Len(Append(durations, duration)) > WindowCapacity
    THEN Tail(Append(durations, duration))
    ELSE Append(durations, duration)

\* Updated with the duration of a failed call pushed as well
Updated_AnyPushed(tool, duration, success) ==
    LET metrics == MetricsOf(tool) IN
    SetProp(performanceMetrics, tool,
            IF success
            THEN [metrics EXCEPT !.successCount = @ + 1,
                                 !.durations = Pushed(@, duration)]
            ELSE [metrics EXCEPT !.failureCount = @ + 1,
                                 !.durations = Pushed(@, duration)])

\* performanceMetrics after updatePerformanceMetrics(tool, duration, success)
Updated(tool, duration, success) ==
    LET metrics == MetricsOf(tool) IN
    SetProp(performanceMetrics, tool,
            IF success
            THEN [metrics EXCEPT !.successCount = @ + 1,
                                 !.durations = Pushed(@, duration)]
            ELSE [metrics EXCEPT !.failureCount = @ + 1])

\* TimeoutRecoveryManager.updatePerformanceMetrics
UpdatePerformanceMetrics(tool, duration, success) ==
    /\ performanceMetrics' = Updated(tool, duration, success)
    /\ reply' = [method |-> "updatePerformanceMetrics", tool |-> tool,
                 duration |-> duration, success |-> success]
    /\ UNCHANGED <<failureHistory, poolVars, callerVars, appVars>>

\* failureHistory.get(key) once lines 132-134 have run
FailuresOf(tool) ==
    IF Has(failureHistory, tool) THEN failureHistory[tool] ELSE <<>>

\* recordFailure, lines 136-147: the failure is pushed and the last 10 are
\* kept (the timestamp of an entry is read nowhere and is left out)
Failures(tool, params, duration, error) ==
    LET failures == Append(FailuresOf(tool),
                           [params |-> params, duration |-> duration,
                            error |-> error.message])
    IN IF Len(failures) > FailureCapacity THEN Tail(failures) ELSE failures

\* TimeoutRecoveryManager.recordFailure: it ends with
\* updatePerformanceMetrics(tool, duration), whose success is false
RecordFailure(tool, params, duration, error) ==
    /\ failureHistory' =
           SetProp(failureHistory, tool, Failures(tool, params, duration, error))
    /\ performanceMetrics' = Updated(tool, duration, FALSE)
    /\ reply' = [method |-> "recordFailure", tool |-> tool,
                 duration |-> duration, success |-> FALSE]
    /\ UNCHANGED <<poolVars, callerVars, appVars>>

\* a call of getPerformanceStats(tool) and what it returns
InvokeGetPerformanceStats(tool) ==
    /\ reply' = [method |-> "getPerformanceStats", tool |-> tool,
                 value |-> GetPerformanceStats(tool)]
    /\ UNCHANGED <<failureHistory, performanceMetrics, poolVars, callerVars, appVars>>

\* a call of getNextStrategy(tool, attemptNumber) and what it returns
InvokeGetNextStrategy(tool, attemptNumber) ==
    /\ reply' = [method |-> "getNextStrategy", tool |-> tool,
                 attemptNumber |-> attemptNumber,
                 value |-> GetNextStrategy(tool, attemptNumber)]
    /\ UNCHANGED <<failureHistory, performanceMetrics, poolVars, callerVars, appVars>>

\* a call of getSuggestedTimeout(tool, baseTimeout) and what it returns
InvokeGetSuggestedTimeout(tool, baseTimeout) ==
    /\ reply' = [method |-> "getSuggestedTimeout", tool |-> tool,
                 baseTimeout |-> baseTimeout,
                 value |-> GetSuggestedTimeout(tool, baseTimeout)]
    /\ UNCHANGED <<failureHistory, performanceMetrics, poolVars, callerVars, appVars>>

\* a call of formatTimeoutError(tool, params, attemptsMade) and what it returns
InvokeFormatTimeoutError(tool, params, attemptsMade) ==
    /\ reply' = [method |-> "formatTimeoutError", tool |-> tool,
                 attemptsMade |-> attemptsMade,
                 value |-> FormatTimeoutError(tool, params, attemptsMade,
                                              EmptyObject)]
    /\ UNCHANGED <<failureHistory, performanceMetrics, poolVars, callerVars, appVars>>

\* the successes and the failures recorded for a tool so far
SuccessCount(tool) == MetricsOf(tool).successCount

FailureCount(tool) == MetricsOf(tool).failureCount

\* the attempts recorded for all tools
Recorded ==
    LET RECURSIVE Total(_)
        Total(S) == IF S = {} THEN 0
                    ELSE LET tool == CHOOSE x \in S : TRUE
                         IN SuccessCount(tool) + FailureCount(tool)
                            + Total(S \ {tool})
    IN Total(DOMAIN performanceMetrics)

\* the tracker over long runs of one tool: the first durations recorded vary,
\* the later ones are SteadyDuration
NextTracker ==
    \/ \E d \in Durations :
          /\ SuccessCount(RecordedTool) < MaxSuccesses
          /\ SuccessCount(RecordedTool) < MaxVaried \/ d = SteadyDuration
          /\ UpdatePerformanceMetrics(RecordedTool, d, TRUE)
    \/ \E d \in FailureDurations :
          /\ FailureCount(RecordedTool) < MaxFailures
          /\ UpdatePerformanceMetrics(RecordedTool, d, FALSE)
    \/ \E d \in FailureDurations :
          /\ FailureCount(RecordedTool) < MaxFailures
          /\ RecordFailure(RecordedTool, RequestParams, d, RequestTimedOut)
    \/ \E tool \in Tools : InvokeGetPerformanceStats(tool)

SpecTracker == Init /\ [][NextTracker]_vars

(***************************************************************************)
(* Concurrent calls that record into the tracker.  Every task of Tasks     *)
(* makes tool calls of RecordedTool, one after the other; when its call    *)
(* settles the task records the attempt, a success with                    *)
(* updatePerformanceMetrics(tool, duration, true) or a failure with        *)
(* recordFailure.  Both methods are synchronous: neither has an await, so  *)
(* each runs from its first line to its last as one step, and the calls    *)
(* of the tasks settle in any order.                                       *)
(***************************************************************************)
\* a tool call of task t is in flight
Recording(t) == task[t].op = "attempt" /\ task[t].pc = "inflight"

\* task t starts a tool call
AttemptInFlight(t) ==
    /\ task[t].op = "idle"
    /\ calls < MaxSuccesses
    /\ calls' = calls + 1
    /\ task' = [task EXCEPT ![t] = [IdleTask EXCEPT !.op = "attempt",
                                                    !.pc = "inflight"]]
    /\ UNCHANGED <<servers, serversOrder, connectionPool, initialized,
                   subprocess, leaked, callerVars, trackerVars, appVars>>

\* the call of task t answered after `duration` ms, and the task calls
\* updatePerformanceMetrics(tool, duration, true)
RecordSuccess(t, duration) ==
    /\ Recording(t)
    /\ SuccessCount(RecordedTool) < MaxVaried \/ duration = SteadyDuration
    /\ performanceMetrics' = Updated(RecordedTool, duration, TRUE)
    /\ reply' = [method |-> "updatePerformanceMetrics", tool |-> RecordedTool,
                 duration |-> duration, success |-> TRUE]
    /\ task' = [task EXCEPT ![t] = IdleTask]
    /\ UNCHANGED <<servers, serversOrder, connectionPool, initialized,
                   subprocess, leaked, calls, failureHistory, callerVars,
                   appVars>>

\* the call of task t timed out after `duration` ms, and the task calls
\* recordFailure(tool, params, duration, error)
RecordFailed(t, duration) ==
    /\ Recording(t)
    /\ FailureCount(RecordedTool) < MaxFailures
    /\ failureHistory' =
           SetProp(failureHistory, RecordedTool,
                   Failures(RecordedTool, RequestParams, duration,
                            RequestTimedOut))
    /\ performanceMetrics' = Updated(RecordedTool, duration, FALSE)
    /\ reply' = [method |-> "recordFailure", tool |-> RecordedTool,
                 duration |-> duration, success |-> FALSE]
    /\ task' = [task EXCEPT ![t] = IdleTask]
    /\ UNCHANGED <<servers, serversOrder, connectionPool, initialized,
                   subprocess, leaked, calls, callerVars, appVars>>

NextRecord ==
    \/ \E t \in Tasks : AttemptInFlight(t)
    \/ \E t \in Tasks, d \in Durations : RecordSuccess(t, d)
    \/ \E t \in Tasks, d \in FailureDurations : RecordFailed(t, d)
    \/ \E tool \in Tools : InvokeGetPerformanceStats(tool)

SpecRecord == Init /\ [][NextRecord]_vars

\* the manager with short histories of the recorded tools, and the calls that
\* read them
NextRecovery ==
    \/ \E d \in Durations :
          /\ SuccessCount(RecordedTool) < MaxSamples
          /\ UpdatePerformanceMetrics(RecordedTool, d, TRUE)
    \/ \E d \in FailureDurations :
          /\ FailureCount(RecordedTool) < MaxFailures
          /\ RecordFailure(RecordedTool, RequestParams, d, RequestTimedOut)
    \/ \E tool \in Tools : InvokeGetPerformanceStats(tool)
    \/ \E tool \in Tools, attemptNumber \in 0..MaxAttemptNumber :
          InvokeGetNextStrategy(tool, attemptNumber)
    \/ \E tool \in Tools, baseTimeout \in BaseTimeouts :
          InvokeGetSuggestedTimeout(tool, baseTimeout)
    \/ \E tool \in Tools, attemptsMade \in 0..MaxAttemptsMade :
          InvokeFormatTimeoutError(tool, RequestParams, attemptsMade)

SpecRecovery == Init /\ [][NextRecovery]_vars

(***************************************************************************)
(* The test LeoAgent makes for the timeout descriptor.                     *)
(***************************************************************************)
\* the properties of a server slot that hold objects
SubSlots == {"jira", "confluence"}

\* LeoAgent.checkForTimeoutErrors(mcpData)
CheckForTimeoutErrors(mcpData) ==
    \E service \in DOMAIN mcpData :
        LET data == mcpData[service] IN
        \/ Has(data, "error") /\ data.error = "TIMEOUT_ERROR"
        \/ \E subKey \in DOMAIN data \cap SubSlots :
              /\ Has(data[subKey], "error")
              /\ data[subKey].error = "TIMEOUT_ERROR"

(***************************************************************************)
(* The texts of the agent's model: messages of the users, answers of the   *)
(* agent.  A text is the sequence of its characters.                       *)
(***************************************************************************)
\* test-brands.js, line 53
NeedHelpWithTrueFire ==
    <<"I"," ","n","e","e","d"," ","h","e","l","p"," ","w","i","t","h"," ",
      "T","r","u","e","F","i","r","e">>

\* test-brands.js, line 20
CheckJamPlay ==
    <<"C","h","e","c","k"," ","J","a","m","P","l","a","y"," ","s","u","b",
      "s","c","r","i","p","t","i","o","n"," ","n","u","m","b","e","r","s">>

\* test-brands.js, line 55
TopIssues ==
    <<"W","h","a","t"," ","a","r","e"," ","t","h","e"," ","t","o","p"," ",
      "i","s","s","u","e","s"," ","t","h","i","s"," ","w","e","e","k","?">>

\* test-brands.js, line 21
TopPriorities ==
    <<"W","h","a","t"," ","a","r","e"," ","o","u","r"," ","t","o","p"," ",
      "p","r","i","o","r","i","t","i","e","s"," ","t","h","i","s"," ","s",
      "p","r","i","n","t","?">>

\* test-permission-based.js, line 43
LatestJiraTickets ==
    <<"W","h","a","t"," ","a","r","e"," ","t","h","e"," ","l","a","t","e",
      "s","t"," ","J","i","r","a"," ","t","i","c","k","e","t","s","?">>

\* test-permission-based.js, line 31
YesPleaseSearch ==
    <<"Y","e","s",","," ","p","l","e","a","s","e"," ","s","e","a","r","c",
      "h">>

\* test-permission-based.js, line 55
NoNeverMind ==
    <<"N","o",","," ","n","e","v","e","r"," ","m","i","n","d">>

\* a request that begins with a word of confirmPatterns
SearchJiraForBugs ==
    <<"S","e","a","r","c","h"," ","J","i","r","a"," ","f","o","r"," ","l",
      "o","g","i","n"," ","b","u","g","s">>

\* test-permission-based.js, line 67
ProductRoadmap ==
    <<"W","h","a","t"," ","i","s"," ","t","h","e"," ","b","e","s","t"," ",
      "w","a","y"," ","t","o"," ","m","a","n","a","g","e"," ","a"," ","p",
      "r","o","d","u","c","t"," ","r","o","a","d","m","a","p","?">>

\* test-permission-based.js, line 116
IssuesFromDevProject ==
    <<"S","h","o","w"," ","m","e"," ","i","s","s","u","e","s"," ","f","r",
      "o","m"," ","t","h","e"," ","D","E","V"," ","p","r","o","j","e","c",
      "t">>

\* the timeout recovery test, line 22
LatestJiraIssues ==
    <<"S","h","o","w"," ","m","e"," ","t","h","e"," ","l","a","t","e","s",
      "t"," ","J","i","r","a"," ","i","s","s","u","e","s">>

\* the timeout recovery test, line 27
GotTimeoutError ==
    <<"I"," ","g","o","t"," ","a"," ","T","I","M","E","O","U","T","_","E",
      "R","R","O","R"," ","w","h","e","n"," ","s","e","a","r","c","h","i",
      "n","g"," ","J","i","r","a","."," ","W","h","a","t"," ","h","a","p",
      "p","e","n","e","d","?">>

\* the timeout recovery test, line 32
FewerResults ==
    <<"C","a","n"," ","y","o","u"," ","t","r","y"," ","s","e","a","r","c",
      "h","i","n","g"," ","w","i","t","h"," ","f","e","w","e","r"," ","r",
      "e","s","u","l","t","s","?">>

\* an answer of the LLM
LlmResponse ==
    <<"H","e","r","e"," ","i","s"," ","w","h","a","t"," ","I"," ","f","o",
      "u","n","d",".">>

\* chat, the catch: the answer when a step raised
Apology ==
    <<"I"," ","a","p","o","l","o","g","i","z","e",","," ","b","u","t"," ",
      "I"," ","e","n","c","o","u","n","t","e","r","e","d"," ","a","n"," ",
      "e","r","r","o","r"," ","w","h","i","l","e"," ","p","r","o","c","e",
      "s","s","i","n","g"," ","y","o","u","r"," ","r","e","q","u","e","s",
      "t","."," ","P","l","e","a","s","e"," ","t","r","y"," ","a","g","a",
      "i","n"," ","o","r"," ","c","o","n","t","a","c","t"," ","s","u","p",
      "p","o","r","t"," ","i","f"," ","t","h","e"," ","i","s","s","u","e",
      " ","p","e","r","s","i","s","t","s",".">>

\* generatePermissionRequest, type jira
PermissionJira ==
    <<"I"," ","c","a","n"," ","h","e","l","p"," ","y","o","u"," ","w","i",
      "t","h"," ","t","h","a","t","."," ","T","o"," ","p","r","o","v","i",
      "d","e"," ","t","h","e"," ","m","o","s","t"," ","a","c","c","u","r",
      "a","t","e"," ","i","n","f","o","r","m","a","t","i","o","n",","," ",
      "I","'","l","l"," ","n","e","e","d"," ","t","o"," ","s","e","a","r",
      "c","h"," ","y","o","u","r"," ","J","i","r","a"," ","i","s","s","u",
      "e","s","."," ","W","o","u","l","d"," ","y","o","u"," ","l","i","k",
      "e"," ","m","e"," ","t","o"," ","l","o","o","k"," ","u","p"," ","r",
      "e","c","e","n","t"," ","t","i","c","k","e","t","s"," ","a","n","d",
      " ","i","s","s","u","e","s"," ","r","e","l","a","t","e","d"," ","t",
      "o"," ","y","o","u","r"," ","q","u","e","r","y","?">>

\* generatePermissionRequest, type confluence
PermissionConfluence ==
    <<"I"," ","c","a","n"," ","h","e","l","p"," ","y","o","u"," ","w","i",
      "t","h"," ","t","h","a","t","."," ","T","o"," ","p","r","o","v","i",
      "d","e"," ","t","h","e"," ","m","o","s","t"," ","a","c","c","u","r",
      "a","t","e"," ","i","n","f","o","r","m","a","t","i","o","n",","," ",
      "I","'","l","l"," ","n","e","e","d"," ","t","o"," ","s","e","a","r",
      "c","h"," ","y","o","u","r"," ","C","o","n","f","l","u","e","n","c",
      "e"," ","p","a","g","e","s","."," ","W","o","u","l","d"," ","y","o",
      "u"," ","l","i","k","e"," ","m","e"," ","t","o"," ","f","i","n","d",
      " ","r","e","l","e","v","a","n","t"," ","d","o","c","u","m","e","n",
      "t","a","t","i","o","n"," ","a","n","d"," ","w","i","k","i"," ","p",
      "a","g","e","s","?">>

\* generatePermissionRequest, type drive
PermissionDrive ==
    <<"I"," ","c","a","n"," ","h","e","l","p"," ","y","o","u"," ","w","i",
      "t","h"," ","t","h","a","t","."," ","T","o"," ","p","r","o","v","i",
      "d","e"," ","t","h","e"," ","m","o","s","t"," ","a","c","c","u","r",
      "a","t","e"," ","i","n","f","o","r","m","a","t","i","o","n",","," ",
      "I","'","l","l"," ","n","e","e","d"," ","t","o"," ","s","e","a","r",
      "c","h"," ","y","o","u","r"," ","G","o","o","g","l","e"," ","D","r",
      "i","v","e","."," ","W","o","u","l","d"," ","y","o","u"," ","l","i",
      "k","e"," ","m","e"," ","t","o"," ","l","o","o","k"," ","f","o","r",
      " ","r","e","l","e","v","a","n","t"," ","d","o","c","u","m","e","n",
      "t","s"," ","a","n","d"," ","f","i","l","e","s","?">>

\* generatePermissionRequest, type all
PermissionAll ==
    <<"I"," ","c","a","n"," ","h","e","l","p"," ","y","o","u"," ","w","i",
      "t","h"," ","t","h","a","t","."," ","T","o"," ","p","r","o","v","i",
      "d","e"," ","t","h","e"," ","m","o","s","t"," ","a","c","c","u","r",
      "a","t","e"," ","i","n","f","o","r","m","a","t","i","o","n",","," ",
      "I","'","l","l"," ","n","e","e","d"," ","t","o"," ","s","e","a","r",
      "c","h"," ","a","c","r","o","s","s"," ","J","i","r","a",","," ","C",
      "o","n","f","l","u","e","n","c","e",","," ","a","n","d"," ","G","o",
      "o","g","l","e"," ","D","r","i","v","e"," ","f","o","r"," ","c","o",
      "m","p","r","e","h","e","n","s","i","v","e"," ","p","r","o","j","e",
      "c","t"," ","i","n","f","o","r","m","a","t","i","o","n","."," ","W",
      "o","u","l","d"," ","y","o","u"," ","l","i","k","e"," ","m","e"," ",
      "t","o"," ","d","o"," ","t","h","a","t","?">>

Texts ==
    {NeedHelpWithTrueFire,
     CheckJamPlay,
     TopIssues,
     TopPriorities,
     LatestJiraTickets,
     YesPleaseSearch,
     NoNeverMind,
     SearchJiraForBugs,
     ProductRoadmap,
     LatestJiraIssues,
     IssuesFromDevProject,
     GotTimeoutError,
     FewerResults,
     LlmResponse,
     Apology,
     PermissionJira,
     PermissionConfluence,
     PermissionDrive,
     PermissionAll}

(***************************************************************************)
(* BrandDetector.                                                          *)
(***************************************************************************)
\* a JavaScript string value, told from null
Str(s) == [string |-> s]

\* lines 201-227: this.brands, in the order of its keys
Brands ==
    <<[name |-> "TrueFire",
       keywords |-> <<<<"t","r","u","e","f","i","r","e">>,
                      <<"t","f">>,
                      <<"g","u","i","t","a","r"," ","l","e","s","s","o","n","s">>,
                      <<"g","u","i","t","a","r"," ","c","o","u","r","s","e","s">>>>,
       domains |-> <<<<"t","r","u","e","f","i","r","e",".","c","o","m">>>>],
      [name |-> "ArtistWorks",
       keywords |-> <<<<"a","r","t","i","s","t","w","o","r","k","s">>,
                      <<"a","w">>,
                      <<"v","i","d","e","o"," ","e","x","c","h","a","n","g","e">>,
                      <<"v","x","l">>>>,
       domains |-> <<<<"a","r","t","i","s","t","w","o","r","k","s",".","c","o","m">>>>],
      [name |-> "Blayze",
       keywords |-> <<<<"b","l","a","y","z","e">>,
                      <<"r","a","c","i","n","g">>,
                      <<"m","o","t","o","r","s","p","o","r","t","s">>,
                      <<"s","p","o","r","t","s"," ","c","o","a","c","h","i","n","g">>>>,
       domains |-> <<<<"b","l","a","y","z","e",".","c","o","m">>>>],
      [name |-> "FaderPro",
       keywords |-> <<<<"f","a","d","e","r","p","r","o">>,
                      <<"f","p">>,
                      <<"d","j">>,
                      <<"e","l","e","c","t","r","o","n","i","c"," ","m","u","s","i","c">>,
                      <<"p","r","o","d","u","c","t","i","o","n">>>>,
       domains |-> <<<<"f","a","d","e","r","p","r","o",".","c","o","m">>>>],
      [name |-> "JamPlay",
       keywords |-> <<<<"j","a","m","p","l","a","y">>,
                      <<"j","p">>,
                      <<"j","a","m"," ","p","l","a","y">>>>,
       domains |-> <<<<"j","a","m","p","l","a","y",".","c","o","m">>>>]>>

\* lines 264-283: the first brand, in the order of this.brands, one of whose
\* keywords or domains is found in the lower-cased text; null without one
DetectFromText(text) ==
    LET lowerText == ToLower(text)
        found == {i \in 1..Len(Brands) :
                    \/ \E j \in 1..Len(Brands[i].keywords) :
                          Contains(lowerText, Brands[i].keywords[j])
                    \/ \E j \in 1..Len(Brands[i].domains) :
                          Contains(lowerText, Brands[i].domains[j])}
    IN IF found = {} THEN Null
       ELSE Str(Brands[CHOOSE i \in found : \A j \in found : i <= j].name)

\* detectFromText of every text of the model, computed once
Detected == [text \in Texts |-> DetectFromText(text)]

DetectedIn(text) ==
    IF text \in DOMAIN Detected THEN Detected[text] ELSE DetectFromText(text)

\* lines 246-253: the brand of the latest entry of the history that has one
DetectFromHistory(history) ==
    LET found == {i \in 1..Len(history) : DetectedIn(history[i].content) # Null}
    IN IF found = {} THEN Null
       ELSE DetectedIn(history[CHOOSE i \in found : \A j \in found : i >= j].content)

\* lines 238-257, detectBrand(message, history) of a detector whose
\* lastDetectedBrand is last: what it returns and what it leaves in
\* lastDetectedBrand
DetectBrand(message, history, last) ==
    LET currentBrand == DetectedIn(message)
        historicalBrand == DetectFromHistory(history)
    IN IF currentBrand # Null
       THEN [returned |-> currentBrand, lastDetectedBrand |-> currentBrand]
       ELSE IF historicalBrand # Null
       THEN [returned |-> historicalBrand, lastDetectedBrand |-> historicalBrand]
       ELSE [returned |-> last, lastDetectedBrand |-> last]

\* the messages detectBrand is called with
BrandMessages == {NeedHelpWithTrueFire, CheckJamPlay, TopIssues, TopPriorities}

\* the longest history detectBrand is called with
MaxHistory == 2

\* the histories: entries of the user with the messages as content
Histories ==
    UNION {[1..n -> [role : {"user"}, content : BrandMessages]] : n \in 0..MaxHistory}

\* a call of detectBrand(message, history) and what it returns
InvokeDetectBrand(message, history) ==
    LET result == DetectBrand(message, history, lastDetectedBrand) IN
    /\ lastDetectedBrand' = result.lastDetectedBrand
    /\ reply' = [method |-> "detectBrand", message |-> message,
                 history |-> history, value |-> result.returned]
    /\ UNCHANGED <<failureHistory, performanceMetrics, poolVars, callerVars,
                   health, conversationHistory, pendingMCPRequests,
                   lastErrorContext, turn>>

\* lines 311-313: clearContext()
ClearContext ==
    /\ lastDetectedBrand' = Null
    /\ reply' = [method |-> "clearContext"]
    /\ UNCHANGED <<failureHistory, performanceMetrics, poolVars, callerVars,
                   health, conversationHistory, pendingMCPRequests,
                   lastErrorContext, turn>>

NextBrand ==
    \/ \E message \in BrandMessages, history \in Histories :
          InvokeDetectBrand(message, history)
    \/ ClearContext

SpecBrand == Init /\ [][NextBrand]_vars

(***************************************************************************)
(* LeoAgent with permission-based access: chat(message, {userId}).  The    *)
(* chat calls are made one after the other, by any user.                   *)
(***************************************************************************)
Users == {"u1", "u2"}

\* the chat calls of a behaviour
MaxTurns == 3

\* trimHistory: the entries a history keeps
HistoryLimit == 20

IsSpace(c) == c = " "

\* String.prototype.trim
Trim(text) ==
    LET kept == {i \in 1..Len(text) : ~IsSpace(text[i])} IN
    IF kept = {} THEN <<>>
    ELSE SubSeq(text, CHOOSE i \in kept : \A j \in kept : i <= j,
                      CHOOSE i \in kept : \A j \in kept : i >= j)

\* alt is in text right after position i
At(text, alt, i) ==
    /\ i + Len(alt) <= Len(text)
    /\ \A j \in 1..Len(alt) : text[i + j] = alt[j]

\* /^(alt1|alt2|...)/i.test(text)
TestStart(regex, text) == \E alt \in regex : At(ToLower(text), alt, 0)

\* /alt1|alt2|.../i.test(text)
TestAny(regex, text) == \E alt \in regex : Contains(ToLower(text), alt)

\* /first.*second/i.test(text), for a text of one line
TestThen(first, second, text) ==
    LET lower == ToLower(text) IN
    \E i \in 0..Len(text) :
        /\ At(lower, first, i)
        /\ \E k \in (i + Len(first))..Len(text) : At(lower, second, k)

\* isConfirmation, line 207
ConfirmPatterns ==
    {<<"y","e","s">>,
     <<"y","e","a","h">>,
     <<"y","e","p">>,
     <<"s","u","r","e">>,
     <<"o","k">>,
     <<"o","k","a","y">>,
     <<"p","l","e","a","s","e">>,
     <<"g","o"," ","a","h","e","a","d">>,
     <<"d","o"," ","i","t">>,
     <<"s","e","a","r","c","h">>,
     <<"f","i","n","d">>,
     <<"l","o","o","k">>}

\* isDenial, line 217
DenyPatterns ==
    {<<"n","o">>,
     <<"n","o","p","e">>,
     <<"n","a","h">>,
     <<"d","o","n","'","t">>,
     <<"d","o","n","t">>,
     <<"s","t","o","p">>,
     <<"c","a","n","c","e","l">>,
     <<"n","e","v","e","r"," ","m","i","n","d">>,
     <<"n","e","v","e","r","m","i","n","d">>}

IsConfirmation(message) == TestStart(ConfirmPatterns, Trim(message))

IsDenial(message) == TestStart(DenyPatterns, Trim(message))

\* detectMCPIntent, line 140
IntentJira ==
    {<<"j","i","r","a">>,
     <<"i","s","s","u","e">>,
     <<"t","i","c","k","e","t">>,
     <<"s","p","r","i","n","t">>,
     <<"b","a","c","k","l","o","g">>,
     <<"e","p","i","c">>,
     <<"s","t","o","r","y">>,
     <<"b","u","g">>}

\* detectMCPIntent, line 148
IntentConfluence ==
    {<<"c","o","n","f","l","u","e","n","c","e">>,
     <<"d","o","c">>,
     <<"d","o","c","u","m","e","n","t","a","t","i","o","n">>,
     <<"p","r","d">>,
     <<"s","p","e","c">>,
     <<"w","i","k","i">>,
     <<"c","h","a","r","t","e","r">>}

\* detectMCPIntent, line 156: the alternatives without .*
IntentDrive ==
    {<<"d","r","i","v","e">>,
     <<"s","h","e","e","t">>,
     <<"f","i","l","e">>,
     <<"f","o","l","d","e","r">>}

\* detectMCPIntent, line 164: the alternatives without .*
IntentAll ==
    {<<"u","p","d","a","t","e">>,
     <<"p","r","o","g","r","e","s","s">>}

\* detectMCPIntent, lines 136-172: the intent's type (its keywords are read
\* nowhere), or null
DetectMCPIntent(message) ==
    IF TestAny(IntentJira, message) THEN [type |-> "jira"]
    ELSE IF TestAny(IntentConfluence, message) THEN [type |-> "confluence"]
    ELSE IF \/ TestAny(IntentDrive, message)
            \/ TestThen(<<"g","o","o","g","l","e">>, <<"d","o","c">>, message)
    THEN [type |-> "drive"]
    ELSE IF \/ TestAny(IntentAll, message)
            \/ TestThen(<<"p","r","o","j","e","c","t">>, <<"s","t","a","t","u","s">>, message)
    THEN [type |-> "all"]
    ELSE Null

\* generatePermissionRequest, lines 180-199
GeneratePermissionRequest(intent) ==
    CASE intent.type = "jira" -> PermissionJira
      [] intent.type = "confluence" -> PermissionConfluence
      [] intent.type = "drive" -> PermissionDrive
      [] intent.type = "all" -> PermissionAll

\* a trim that keeps the oldest entries
TrimHistory_KeepsOldest(history) ==
    IF Len(history) > HistoryLimit
    THEN SubSeq(history, 1, HistoryLimit)
    ELSE history

\* trimHistory, lines 283-287
TrimHistory(history) ==
    IF Len(history) > HistoryLimit
    THEN SubSeq(history, Len(history) - HistoryLimit + 1, Len(history))
    ELSE history

\* history.push of the user's message and of the answer, then trimHistory
Pushed2(history, message, answer) ==
    TrimHistory(history \o <<[role |-> "user", content |-> message],
                             [role |-> "assistant", content |-> answer]>>)

\* a delete that empties the map
Delete_All(map, key) == EmptyObject

\* Map.prototype.delete
Delete(map, key) == [k \in DOMAIN map \ {key} |-> map[k]]

\* what the users write
PermissionMessages ==
    {LatestJiraTickets, YesPleaseSearch, NoNeverMind, SearchJiraForBugs,
     ProductRoadmap, IssuesFromDevProject}

\* the last decision of chat for every user that had a turn
NoDecisions == EmptyObject

\* lines 27-43: chat is called; the history of the user is made if there is
\* none, detectBrand runs and getSystemPrompt is awaited
Chat(u, message) ==
    /\ turn.pc = "idle"
    /\ turn.n < MaxTurns
    /\ LET history == IF Has(conversationHistory, u) THEN conversationHistory[u]
                      ELSE <<>>
           detected == DetectBrand(message, history, lastDetectedBrand)
       IN /\ conversationHistory' = SetProp(conversationHistory, u, history)
          /\ lastDetectedBrand' = detected.lastDetectedBrand
          /\ turn' = [pc |-> "getSystemPrompt", n |-> turn.n + 1, userId |-> u,
                      message |-> message, brand |-> detected.returned,
                      agent |-> "permission", returned |-> Undefined,
                      pendingRequest |-> Null, decision |-> "none",
                      before |-> IF Has(turn, "prior") /\ Has(turn.prior, u)
                                 THEN turn.prior[u] ELSE "none",
                      prior |-> IF Has(turn, "prior") THEN turn.prior
                                ELSE NoDecisions]
    /\ UNCHANGED <<pendingMCPRequests, lastErrorContext, health, poolVars,
                   callerVars, trackerVars>>

\* the turn's decision is kept for the user
Decided(t, decision) ==
    [t EXCEPT !.decision = decision,
              !.prior = SetProp(@, t.userId, decision)]

\* a denial that leaves the pending request in the map
Denied_Kept(u) == pendingMCPRequests

\* line 68: the denied request is deleted
Denied(u) == Delete(pendingMCPRequests, u)

\* lines 46-107, up to the next await: a confirmation of a pending request
\* deletes it and calls gatherData with its query; a denial deletes it; else
\* a message with an intent is stored as the pending request and the
\* permission question is returned; else the LLM is asked
ChatPrompted ==
    /\ turn.pc = "getSystemPrompt"
    /\ LET u == turn.userId
           message == turn.message
           pendingRequest == IF Has(pendingMCPRequests, u)
                             THEN pendingMCPRequests[u] ELSE Undefined
           t == [turn EXCEPT !.pendingRequest = pendingRequest]
           mcpIntent == DetectMCPIntent(message)
       IN IF Truthy(pendingRequest) /\ IsConfirmation(message)
          THEN /\ pendingMCPRequests' = Delete(pendingMCPRequests, u)
               /\ turn' = [Decided(t, "confirmed") EXCEPT !.pc = "gatherData"]
               /\ UNCHANGED conversationHistory
          ELSE IF Truthy(pendingRequest) /\ IsDenial(message)
          THEN /\ pendingMCPRequests' = Denied(u)
               /\ turn' = [Decided(t, "denied") EXCEPT !.pc = "generateResponse"]
               /\ UNCHANGED conversationHistory
          ELSE IF mcpIntent # Null
          THEN /\ pendingMCPRequests' =
                     SetProp(pendingMCPRequests, u,
                             [query |-> message, brand |-> turn.brand,
                              originalMessage |-> message, intent |-> mcpIntent])
               /\ conversationHistory' =
                     [conversationHistory EXCEPT
                        ![u] = Pushed2(@, message, GeneratePermissionRequest(mcpIntent))]
               /\ turn' = [Decided(t, "asked") EXCEPT
                             !.pc = "returned",
                             !.returned = GeneratePermissionRequest(mcpIntent)]
          ELSE /\ turn' = [Decided(t, "plain") EXCEPT !.pc = "generateResponse"]
               /\ UNCHANGED <<pendingMCPRequests, conversationHistory>>
    /\ UNCHANGED <<lastDetectedBrand, lastErrorContext, health, poolVars,
                   callerVars, trackerVars>>

\* lines 51-59: gatherData returned; the LLM is asked with the enriched
\* message
ChatGathered ==
    /\ turn.pc = "gatherData"
    /\ turn' = [turn EXCEPT !.pc = "generateResponse"]
    /\ UNCHANGED <<lastDetectedBrand, conversationHistory, pendingMCPRequests,
                   lastErrorContext, health, poolVars, callerVars, trackerVars>>

\* lines 59-65, 76-83, 116-123: the LLM answered; the history gets the
\* message and the answer, which is returned
ChatResponded ==
    /\ turn.pc = "generateResponse"
    /\ conversationHistory' =
          [conversationHistory EXCEPT
             ![turn.userId] = Pushed2(@, turn.message, LlmResponse)]
    /\ turn' = [turn EXCEPT !.pc = "returned", !.returned = LlmResponse]
    /\ UNCHANGED <<lastDetectedBrand, pendingMCPRequests, lastErrorContext,
                   health, poolVars, callerVars, trackerVars>>

\* lines 125-128: getSystemPrompt, gatherData or generateResponse raised;
\* the catch returns the apology
ChatRaised ==
    /\ turn.pc \in {"getSystemPrompt", "gatherData", "generateResponse"}
    /\ turn' = [turn EXCEPT !.pc = "returned", !.returned = Apology]
    /\ UNCHANGED <<lastDetectedBrand, conversationHistory, pendingMCPRequests,
                   lastErrorContext, health, poolVars, callerVars, trackerVars>>

\* the user has the answer; the next chat call can be made on the same
\* LeoAgent
ChatReturned ==
    /\ turn.pc = "returned"
    /\ turn' = [pc |-> "idle", n |-> turn.n, prior |-> turn.prior,
                agent |-> turn.agent]
    /\ UNCHANGED <<lastDetectedBrand, conversationHistory, pendingMCPRequests,
                   lastErrorContext, health, poolVars, callerVars, trackerVars>>

NextPermission ==
    \/ \E u \in Users, message \in PermissionMessages : Chat(u, message)
    \/ ChatPrompted
    \/ ChatGathered
    \/ ChatResponded
    \/ ChatRaised
    \/ ChatReturned

SpecPermission == Init /\ [][NextPermission]_vars

(***************************************************************************)
(* LeoAgent of agent.js: chat(message, {userId}) with the intent of        *)
(* TimeoutRecoveryManager.detectIntent.  The chat calls are made one after *)
(* the other, by any user.                                                 *)
(***************************************************************************)
\* detectIntent, lines 103-109: the patterns without .*
DebugPatterns ==
    {<<"t","i","m","e","o","u","t","_","e","r","r","o","r">>,
     <<"s","t","a","c","k"," ","t","r","a","c","e">>}

\* detectIntent, line 111: debugPatterns.some(pattern => pattern.test(message))
TestDebug(message) ==
    \/ TestAny(DebugPatterns, message)
    \/ TestThen(<<"e","r","r","o","r">>, <<"o","c","c","u","r","r","e","d">>, message)
    \/ TestThen(<<"f","a","i","l","e","d">>, <<"a","t","t","e","m","p","t">>, message)
    \/ TestThen(<<"r","e","t","r","y">>, <<"f","a","i","l","e","d">>, message)

\* the test of every text of the model, computed once
DebugTested == [text \in Texts |-> TestDebug(text)]

\* detectIntent, line 111: isDebugMessage
IsDebugMessage(message) ==
    IF message \in DOMAIN DebugTested THEN DebugTested[message]
    ELSE TestDebug(message)

\* detectIntent without line 112: the previous context is not looked at
DetectIntent_MessageOnly(message, previousContext) ==
    IF IsDebugMessage(message) THEN "debug_mode" ELSE "user_query"

\* detectIntent(message, previousContext), lines 101-124
DetectIntent(message, previousContext) ==
    LET hadPreviousError == previousContext.lastError # Undefined IN
    IF IsDebugMessage(message) \/ hadPreviousError
    THEN "debug_mode"
    ELSE "user_query"

\* formatTimeoutError, line 307: the descriptor of a timeout, as far as chat
\* reads it
TimeoutDescriptor == [error |-> "TIMEOUT_ERROR", tool |-> "jira"]

\* what gatherData can return: nothing, a payload, a timeout descriptor in a
\* server's slot or one level below, another error
McpResults ==
    {EmptyObject,
     [atlassian |-> [jira |-> Payload("jira_search")]],
     [atlassian |-> [jira |-> TimeoutDescriptor]],
     [googleDrive |-> TimeoutDescriptor],
     [atlassian |-> [error |-> "Connection timeout"]]}

\* what the users write
AgentMessages == {GotTimeoutError, FewerResults}

\* lines 27-43: chat is called; the history of the user is made if there is
\* none, the intent is taken from the message and the user's error context,
\* detectBrand runs and getSystemPrompt is awaited
AgentChat(u, message) ==
    /\ turn.pc = "idle"
    /\ turn.n < MaxTurns
    /\ LET history == IF Has(conversationHistory, u) THEN conversationHistory[u]
                      ELSE <<>>
           lastError == IF Has(lastErrorContext, u) THEN lastErrorContext[u]
                        ELSE Undefined
           intent == DetectIntent(message, [lastError |-> lastError])
           detected == DetectBrand(message, history, lastDetectedBrand)
           prior == IF Has(turn, "prior") THEN turn.prior ELSE NoDecisions
       IN /\ conversationHistory' = SetProp(conversationHistory, u, history)
          /\ lastDetectedBrand' = detected.lastDetectedBrand
          /\ turn' = [pc |-> "getSystemPrompt", n |-> turn.n + 1, userId |-> u,
                      message |-> message, brand |-> detected.returned,
                      agent |-> "intent", intent |-> intent,
                      returned |-> Undefined,
                      before |-> IF Has(prior, u) THEN prior[u] ELSE "none",
                      prior |-> prior]
    /\ UNCHANGED <<pendingMCPRequests, lastErrorContext, health, poolVars,
                   callerVars, trackerVars>>

\* lines 43-46: the system prompt is built; gatherData(message, brand) is
\* awaited
AgentPrompted ==
    /\ turn.pc = "getSystemPrompt"
    /\ turn' = [turn EXCEPT !.pc = "gatherData"]
    /\ UNCHANGED <<lastDetectedBrand, conversationHistory, pendingMCPRequests,
                   lastErrorContext, health, poolVars, callerVars, trackerVars>>

\* lines 46-70: gatherData returned mcpData; the user's error context is set
\* when it has a timeout error and deleted when not (Date.now() is the
\* number of the turn); the LLM is asked with the message enriched for the
\* intent
AgentGathered(mcpData) ==
    /\ turn.pc = "gatherData"
    /\ LET hasTimeoutError == CheckForTimeoutErrors(mcpData) IN
       /\ lastErrorContext' =
             IF hasTimeoutError
             THEN SetProp(lastErrorContext, turn.userId,
                          [timestamp |-> turn.n, error |-> "TIMEOUT_ERROR",
                           data |-> mcpData])
             ELSE Delete(lastErrorContext, turn.userId)
       /\ turn' = [turn EXCEPT
                     !.pc = "generateResponse",
                     !.prior = SetProp(@, turn.userId,
                                       IF hasTimeoutError THEN "timeout"
                                       ELSE "clean")]
    /\ UNCHANGED <<lastDetectedBrand, conversationHistory, pendingMCPRequests,
                   health, poolVars, callerVars, trackerVars>>

NextAgent ==
    \/ \E u \in Users, message \in AgentMessages : AgentChat(u, message)
    \/ AgentPrompted
    \/ \E mcpData \in McpResults : AgentGathered(mcpData)
    \/ ChatResponded
    \/ ChatRaised
    \/ ChatReturned

SpecAgent == Init /\ [][NextAgent]_vars

(***************************************************************************)
(* Claims about gatherData and callToolWithRetry, checked under SpecGather.*)
(***************************************************************************)
\* callToolWithTimeout calls made by the callToolWithRetry call of the frame
Invocations ==
    Len(gather.retry.outcomes)
    + (IF gather.pc = "callToolWithTimeout" THEN 1 ELSE 0)

\* the attempt gave a success: a value, truthy and without an error field
Succeeded(outcome) == Has(outcome, "value") /\ Success(outcome.value)

\* C4: callToolWithRetry calls callToolWithTimeout at most maxRetries + 1
\* times; no attempt follows a success, and the first success is what it
\* returns; when all maxRetries + 1 attempts failed (a timeout descriptor, an
\* empty result or a raised error) it returns the failure descriptor
\* {error, message, partial: true}.
C4_RetryBoundedFirstSuccess ==
    LET retry == gather.retry
        n == Len(retry.outcomes)
    IN /\ Invocations <= retry.maxRetries + 1
       /\ \A i \in 1..(n - 1) : ~Succeeded(retry.outcomes[i])
       /\ (n > 0 /\ Succeeded(retry.outcomes[n])) =>
              /\ gather.pc # "callToolWithTimeout"
              /\ gather.pc # "backoff"
              /\ retry.returned = retry.outcomes[n].value
       /\ retry.returned # NotReturned =>
              IF Success(retry.returned)
              THEN n > 0 /\ retry.outcomes[n] = [value |-> retry.returned]
              ELSE /\ n = retry.maxRetries + 1
                   /\ \A i \in 1..n : ~Succeeded(retry.outcomes[i])
                   /\ DOMAIN retry.returned = {"error", "message", "partial"}
                   /\ retry.returned.partial = TRUE

\* a callToolWithRetry call returned the success of its last allowed
\* attempt, after a timeout and a raised error
C4_Witness ==
    /\ gather.pc = "callToolWithRetry.returned"
    /\ Success(gather.retry.returned)
    /\ Len(gather.retry.outcomes) = gather.retry.maxRetries + 1
    /\ gather.retry.outcomes[1] = [value |-> RequestTimeout]
    /\ gather.retry.outcomes[2] = [raised |-> ConnectionError]

\* a slot holds something: not undefined, not an object without properties
Filled(v) == Truthy(v) /\ DOMAIN v # {}

\* a server slot holds a payload, an error descriptor or sub-slots that do
SlotFilled(v) ==
    /\ Filled(v)
    /\ Has(v, "error") \/ \A k \in DOMAIN v \cap SubSlots : Filled(v[k])

\* C5 (as claimed): every server slot of the object gatherData returns, and
\* every jira or confluence sub-slot of the atlassian slot, holds a payload
\* or an error descriptor, never an empty object, whatever keywords made
\* gatherData query the server.
C5_NoEmptySlot ==
    gather.pc = "returned" =>
        \A server \in DOMAIN gather.results : SlotFilled(gather.results[server])

\* the servers whose keyword class the query matches (gatherData, 391-413)
Matching(q) ==
    {k \in Keys :
        \/ Test(QueryPatternBoth, q)
        \/ k = "atlassian" /\ \/ Test(QueryPatternJira, q)
                              \/ Test(QueryPatternConfluence, q)
        \/ k = "googleDrive" /\ Test(QueryPatternGoogleDrive, q)}

\* the query has the word
HasWord(q, word) == Test({word}, q)

Jira == <<"j","i","r","a">>

Confluence == <<"c","o","n","f","l","u","e","n","c","e">>

Drive == <<"d","r","i","v","e">>

\* C20 (as claimed): gatherData puts a server key in its result only when the
\* query matches the keyword class of the server, and a query that has 'jira'
\* and 'confluence' but not 'drive' is searched in jira and confluence only:
\* the result has no googleDrive key.
C20_JiraConfluenceQueryNoDrive ==
    gather.pc = "returned" =>
        /\ DOMAIN gather.results \subseteq Matching(gather.query)
        /\ (/\ HasWord(gather.query, Jira)
            /\ HasWord(gather.query, Confluence)
            /\ ~HasWord(gather.query, Drive)) =>
              ~Has(gather.results, "googleDrive")

\* C20 (amended): gatherData puts a server key in its result only when the
\* query matches the keyword class of the server or the class of both; a
\* query that has 'jira' and 'confluence' and matches neither the googleDrive
\* class (drive, google, document, sheet, file, folder) nor the class of both
\* (project, status, update, progress) gives a result with the atlassian key,
\* searched in jira and in confluence, and without the googleDrive key.
C20_OnlyMatchingServers ==
    gather.pc = "returned" =>
        /\ DOMAIN gather.results \subseteq Matching(gather.query)
        /\ (/\ HasWord(gather.query, Jira)
            /\ HasWord(gather.query, Confluence)
            /\ ~Test(QueryPatternGoogleDrive, gather.query)
            /\ ~Test(QueryPatternBoth, gather.query)) =>
              /\ DOMAIN gather.results = {"atlassian"}
              /\ \/ Has(gather.results.atlassian, "error")
                 \/ {"jira", "confluence"} \subseteq DOMAIN gather.results.atlassian
              /\ gather.log.drive_search_files = {}

\* gatherData returned the jira and confluence results of such a query
C20_Witness ==
    /\ gather.pc = "returned"
    /\ HasWord(gather.query, Jira)
    /\ HasWord(gather.query, Confluence)
    /\ ~Test(QueryPatternGoogleDrive, gather.query)
    /\ ~Test(QueryPatternBoth, gather.query)
    /\ DOMAIN gather.results = {"atlassian"}
    /\ {"jira", "confluence"} \subseteq DOMAIN gather.results.atlassian
    /\ gather.log.jira_search # {}
    /\ gather.log.confluence_search # {}

\* the tool class a callToolWithRetry call of queryAtlassian or
\* queryGoogleDrive searches for
ClassOf(site) == IF site = "jiraProject" THEN "jira" ELSE site

\* a callToolWithRetry call is in progress
Attempting == gather.pc \in {"callToolWithTimeout", "backoff"}

SlotOf(class) ==
    IF class = "googleDrive" THEN gather.results.googleDrive
    ELSE gather.results.atlassian[class]

\* the attempt index of a callToolWithRetry call stays or goes up by one, a
\* new call starts at 0
AttemptStep ==
    /\ (gather'.retry.site = gather.retry.site /\ gather.retry.site # "none")
          => gather'.retry.attempt \in {gather.retry.attempt,
                                        gather.retry.attempt + 1}
    /\ (gather'.retry.site # gather.retry.site /\ gather'.retry.site # "none")
          => gather'.retry.attempt = 0

\* what holds in every state of a query for the callToolWithRetry calls
AttemptInvariant ==
    /\ gather.retry.attempt <= gather.retry.maxRetries
    /\ Attempting \/ gather.pc = "callToolWithRetry.returned" =>
          /\ gather.retry.site \notin DOMAIN gather.closed
          /\ gather.retry.site = "jiraProject" =>
                /\ Has(gather.closed, "jira")
                /\ gather.closed.jira = "exhausted"
                /\ ProjectMatch(gather.query)
          /\ gather.retry.site # "jiraProject" =>
                \A site \in DOMAIN gather.closed :
                    ClassOf(site) # ClassOf(gather.retry.site)
    /\ gather.pc = "callToolWithTimeout" =>
          Len(gather.retry.outcomes) = gather.retry.attempt
    /\ gather.pc = "returned" =>
          \A site \in DOMAIN gather.closed :
              LET last == IF site = "jira" /\ Has(gather.closed, "jiraProject")
                          THEN "jiraProject" ELSE site
              IN /\ gather.closed[last] = "exhausted" =>
                      Has(SlotOf(ClassOf(site)), "error")
                 /\ gather.closed[last] = "success" =>
                      Success(SlotOf(ClassOf(site)))

C22_ConnectionErrorNotRetried ==
    Attempting =>
        \A i \in 1..Len(gather.retry.outcomes) :
            gather.retry.outcomes[i] # [raised |-> ConnectionError]

\* C6: gatherData never raises.  When it returns, every server whose keyword
\* class matches the query has been queried and has its slot, and no other;
\* a server whose connection failed has an error descriptor in its slot; a
\* tool whose every attempt failed has an error descriptor in its slot; and
\* what a tool of the other server, or the other tool, answered is kept.
C6_GatherDataNeverRaises ==
    LET results == gather.results
        log == gather.log
    IN /\ gather.pc # "raised"
       /\ gather.pc = "returned" =>
            /\ DOMAIN results = Matching(gather.query)
            /\ \A k \in DOMAIN results :
                  /\ Truthy(results[k])
                  /\ "raised" \in log[k] => Has(results[k], "error")
            /\ "payload" \in log.drive_search_files =>
                  results.googleDrive = Payload("drive_search_files")
            /\ (log.drive_search_files # {}
                /\ "payload" \notin log.drive_search_files) =>
                  Has(results.googleDrive, "error")
            /\ "payload" \in log.jira_search =>
                  results.atlassian.jira = Payload("jira_search")
            /\ (log.jira_search # {} /\ "payload" \notin log.jira_search) =>
                  Has(results.atlassian.jira, "error")
            /\ "payload" \in log.confluence_search =>
                  results.atlassian.confluence = Payload("confluence_search")
            /\ (log.confluence_search # {}
                /\ "payload" \notin log.confluence_search) =>
                  Has(results.atlassian.confluence, "error")

\* gatherData returned with the error descriptor of the atlassian connection
\* failure in one slot and the payload of Google Drive in the other
C6_Witness ==
    /\ gather.pc = "returned"
    /\ "raised" \in gather.log.atlassian
    /\ DOMAIN gather.results = Keys
    /\ gather.results.atlassian = [error |-> ConnectionError.message]
    /\ gather.results.googleDrive = Payload("drive_search_files")

\* C7 (as claimed): when every callToolWithTimeout call made for jira in a
\* gatherData query ended in a call timeout, the jira slot of the result is
\* the timeout descriptor: error = 'TIMEOUT_ERROR', the recovery options (the
\* 3 jira strategies and the manual check) and a summary; it is what
\* LeoAgent.checkForTimeoutErrors tests for.
C7_JiraTimeoutDescriptor ==
    (gather.pc = "returned" /\ gather.log.jira_search = {"timeout"}) =>
        /\ Has(gather.results, "atlassian")
        /\ Has(gather.results.atlassian, "jira")
        /\ LET slot == gather.results.atlassian.jira IN
           /\ Has(slot, "error")
           /\ slot.error = FormatTimeoutError("jira", RequestParams, 1, EmptyObject).error
           /\ Has(slot, "recoveryOptions")
           /\ slot.recoveryOptions =
                 GenerateRecoveryOptions("jira", RequestParams, EmptyObject)
           /\ Len(slot.recoveryOptions) = 4
           /\ Has(slot, "summary")
           /\ slot.summary # ""
        /\ CheckForTimeoutErrors(gather.results)

(***************************************************************************)
(* Claims about the performance tracker, checked under SpecTracker.        *)
(***************************************************************************)
\* C13: after any calls of updatePerformanceMetrics and recordFailure, the
\* window of successful durations of every tool holds at most 50 entries, and
\* the sampleSize of the statistics getPerformanceStats returns is at most 50.
C13_WindowAtMostCapacity ==
    /\ \A tool \in DOMAIN performanceMetrics :
           Len(performanceMetrics[tool].durations) <= 50
    /\ (reply.method = "getPerformanceStats" /\ reply.value # Null) =>
           reply.value.sampleSize <= 50

\* more than 50 successes were recorded for a tool, and getPerformanceStats
\* returned statistics over the 50 durations kept
C13_Witness ==
    /\ reply.method = "getPerformanceStats"
    /\ reply.value # Null
    /\ reply.value.sampleSize = 50
    /\ SuccessCount(reply.tool) > 50
    /\ FailureCount(reply.tool) > 0

\* a call of updatePerformanceMetrics or recordFailure has just returned
RecordStep ==
    /\ reply'.method \in {"updatePerformanceMetrics", "recordFailure"}
    /\ performanceMetrics' # performanceMetrics

\* the last n entries of the sequence s, all of them when it has fewer
LastOf(s, n) ==
    IF Len(s) <= n THEN s ELSE SubSeq(s, Len(s) - n + 1, Len(s))

\* the window of a tool after the record call of this step, from the window
\* before it
WindowStep(tool) ==
    LET before == MetricsOf(tool)
        after == performanceMetrics'[tool]
    IN IF reply'.tool = tool /\ reply'.success
       THEN /\ after.successCount = before.successCount + 1
            /\ after.failureCount = before.failureCount
            /\ after.durations =
                   LastOf(Append(before.durations, reply'.duration), 50)
       ELSE IF reply'.tool = tool
       THEN /\ after.successCount = before.successCount
            /\ after.failureCount = before.failureCount + 1
            /\ after.durations = before.durations
       ELSE after = before

\* C32: the window of a tool is the sequence of its most recent min(s, 50)
\* successful durations in arrival order, s being the successes recorded:
\* a successful record appends its duration and, beyond the 50th, drops the
\* oldest entry and no other; a failed record leaves the window as it is.
C32_WindowIsRecentSuccesses ==
    /\ [](\A tool \in DOMAIN performanceMetrics :
             LET metrics == performanceMetrics[tool] IN
             Len(metrics.durations) =
                 IF metrics.successCount <= 50 THEN metrics.successCount
                 ELSE 50)
    /\ [][RecordStep =>
             \A tool \in DOMAIN performanceMetrics' : WindowStep(tool)]_vars

\* the 51st success of a tool was recorded after a failure: the window starts
\* with the second and the third duration recorded, the first is gone
C32_Witness ==
    /\ reply.method = "updatePerformanceMetrics"
    /\ reply.success
    /\ SuccessCount(reply.tool) = 51
    /\ FailureCount(reply.tool) > 0
    /\ Len(MetricsOf(reply.tool).durations) = 50
    /\ MetricsOf(reply.tool).durations[1] = 13000
    /\ MetricsOf(reply.tool).durations[2] = 101

(***************************************************************************)
(* Claims about concurrent record calls, checked under SpecRecord.         *)
(***************************************************************************)
\* the record calls made: every call started has recorded, but those still
\* in flight
RecordCalls == calls - Cardinality({t \in Tasks : Recording(t)})

\* C33: whatever the order in which the calls in flight record into the
\* sample set of a tool, successCount + failureCount is the number of record
\* calls made, the window holds min(successCount, 50) durations in every
\* state, never 51, and a reader gets a sampleSize of min(successCount, 50).
C33_NoLostOrTornUpdate ==
    LET metrics == IF Has(performanceMetrics, RecordedTool)
                   THEN performanceMetrics[RecordedTool] ELSE NewMetrics
        kept == IF metrics.successCount <= 50 THEN metrics.successCount
                ELSE 50
    IN /\ metrics.successCount + metrics.failureCount = RecordCalls
       /\ DOMAIN performanceMetrics \subseteq {RecordedTool}
       /\ Len(metrics.durations) = kept
       /\ (reply.method = "getPerformanceStats" /\ reply.tool = RecordedTool) =>
              IF kept = 0 THEN reply.value = Null
              ELSE reply.value.sampleSize = kept

\* the 52 calls of the two tasks have all recorded, and a reader sees the 50
\* samples kept
C33_Witness ==
    /\ \A t \in Tasks : task[t].op = "idle"
    /\ calls = 52
    /\ reply.method = "getPerformanceStats"
    /\ reply.tool = RecordedTool
    /\ reply.value # Null
    /\ reply.value.sampleSize = 50
    /\ performanceMetrics[RecordedTool].successCount
           + performanceMetrics[RecordedTool].failureCount = 52

(***************************************************************************)
(* Claims about the recovery manager's methods, checked under SpecRecovery.*)
(***************************************************************************)
\* the entries of the sequence s that are less than v, and those at most v
Below(s, v) == Cardinality({i \in 1..Len(s) : s[i] < v})

UpTo(s, v) == Cardinality({i \in 1..Len(s) : s[i] <= v})

\* v is the entry at index idx (from 0) of s sorted ascending
AtSortedIndex(s, idx, v) ==
    /\ \E i \in 1..Len(s) : s[i] = v
    /\ Below(s, v) <= idx
    /\ idx < UpTo(s, v)

\* the window of the claim's example
ExampleMetrics ==
    [durations |-> <<100, 120, 110, 130, 125, 115>>,
     successCount |-> 6, failureCount |-> 1]

\* C14: over the n durations of the window, getPerformanceStats returns
\* p50 = the entry at index floor(n * 0.5) and p95 = the entry at index
\* floor(n * 0.95) of the window sorted ascending (both indexes below n), and
\* successRate = successCount / (successCount + failureCount); for the window
\* [100, 120, 110, 130, 125, 115] with one failure, p95 = 130 and
\* successRate = 6/7.
C14_FloorIndexPercentiles ==
    /\ (reply.method = "getPerformanceStats" /\ reply.value # Null) =>
          LET metrics == performanceMetrics[reply.tool]
              n == Len(metrics.durations)
              half == CHOOSE i \in 0..n : 2 * i <= n /\ n < 2 * (i + 1)
              most == CHOOSE i \in 0..n : 100 * i <= 95 * n /\ 95 * n < 100 * (i + 1)
          IN /\ half < n /\ most < n
             /\ reply.value.sampleSize = n
             /\ AtSortedIndex(metrics.durations, half, reply.value.p50)
             /\ AtSortedIndex(metrics.durations, most, reply.value.p95)
             /\ reply.value.successRate.num
                   * (metrics.successCount + metrics.failureCount)
                = metrics.successCount * reply.value.successRate.den
    /\ PerformanceStats(ExampleMetrics).p95 = 130
    /\ PerformanceStats(ExampleMetrics).successRate.num * 7
          = 6 * PerformanceStats(ExampleMetrics).successRate.den

\* getPerformanceStats returned statistics of a window that is not in
\* ascending order and whose p50 and p95 differ, after a failure was recorded
C14_Witness ==
    /\ reply.method = "getPerformanceStats"
    /\ reply.value # Null
    /\ reply.value.p50 < reply.value.p95
    /\ FailureCount(reply.tool) > 0
    /\ \E i \in 1..(reply.value.sampleSize - 1) :
          performanceMetrics[reply.tool].durations[i]
            > performanceMetrics[reply.tool].durations[i + 1]

\* the successful samples recorded for a tool that are in its window
Samples(tool) == Len(MetricsOf(tool).durations)

\* C15 (as claimed): getPerformanceStats returns null whenever the tool has
\* fewer than 5 successful samples, so the descriptor of formatTimeoutError
\* carries no statistics computed from 1 to 4 samples.
C15_NoStatsBelowFiveSamples ==
    /\ (reply.method = "getPerformanceStats" /\ Samples(reply.tool) < 5) =>
           reply.value = Null
    /\ (reply.method = "formatTimeoutError" /\ Samples(reply.tool) < 5) =>
           reply.value.performanceContext = Null

\* C16: getSuggestedTimeout(tool, base) returns base when the tool has fewer
\* than 5 samples and min(ceil(p95 * 1.2), base * 2) otherwise, p95 being the
\* entry at index floor(n * 0.95) of the sorted window; what it returns never
\* exceeds 2 * base.
C16_SuggestedTimeoutCapped ==
    reply.method = "getSuggestedTimeout" =>
        LET base == reply.baseTimeout
            value == reply.value
            window == MetricsOf(reply.tool).durations
            n == Len(window)
        IN /\ n < 5 => value = base
           /\ n >= 5 =>
                 \E p95 \in {window[i] : i \in 1..n} :
                    /\ AtSortedIndex(window, (95 * n) \div 100, p95)
                    /\ \/ /\ 6 * p95 <= 5 * value
                          /\ 5 * (value - 1) < 6 * p95
                          /\ value <= 2 * base
                       \/ /\ value = 2 * base
                          /\ 6 * p95 > 5 * (2 * base)
           /\ value <= 2 * base

\* with 5 samples or more, getSuggestedTimeout returned the cap 2 * base,
\* which is under p95 * 1.2
C16_Witness ==
    /\ reply.method = "getSuggestedTimeout"
    /\ Samples(reply.tool) >= 5
    /\ reply.value = 2 * reply.baseTimeout
    /\ 5 * reply.value < 6 * GetPerformanceStats(reply.tool).p95

\* with 5 samples or more, getSuggestedTimeout returned the ceiling of
\* p95 * 1.2, which is no integer multiple of p95 and is under the cap
C16_WitnessCeiling ==
    /\ reply.method = "getSuggestedTimeout"
    /\ Samples(reply.tool) >= 5
    /\ reply.value < 2 * reply.baseTimeout
    /\ 5 * reply.value > 6 * GetPerformanceStats(reply.tool).p95

\* C17: for a tool class and an attempt index a >= 0, getNextStrategy(tool, a)
\* returns the a-th entry (from 0) of the class's strategy list when a is
\* below the length of the list and null for every a from the length on; for
\* a tool without a strategy list it returns null for every a.
C17_NextStrategyInOrder ==
    reply.method = "getNextStrategy" =>
        LET a == reply.attemptNumber IN
        IF reply.tool \in {"googleDrive", "jira", "confluence"}
        THEN /\ a < 3 => /\ reply.value # Null
                         /\ reply.value = Strategies[reply.tool][a + 1]
             /\ a >= 3 => reply.value = Null
        ELSE reply.value = Null

\* getNextStrategy returned null for a tool class whose list was used up by
\* more than one attempt
C17_Witness ==
    /\ reply.method = "getNextStrategy"
    /\ reply.tool \in ToolClasses
    /\ reply.attemptNumber > Len(Strategies[reply.tool])
    /\ reply.value = Null

\* getNextStrategy returned the last strategy of a tool class
C17_WitnessLast ==
    /\ reply.method = "getNextStrategy"
    /\ reply.tool \in ToolClasses
    /\ reply.attemptNumber = 2
    /\ reply.value.name = "increase_timeout"

\* C18: for a tool class with k strategies, formatTimeoutError returns a
\* descriptor with error = 'TIMEOUT_ERROR', a summary that is not empty and
\* k + 1 recovery options: one per strategy, in configured order, then a
\* manual_check option with params null, timeout 0 and estimated success rate
\* 1.0; suggestedAction is the first of the recovery options.
C18_DescriptorListsAllStrategies ==
    (reply.method = "formatTimeoutError" /\ reply.tool \in ToolClasses) =>
        LET k == Len(Strategies[reply.tool])
            options == reply.value.recoveryOptions
        IN /\ reply.value.error = "TIMEOUT_ERROR"
           /\ reply.value.summary # ""
           /\ Len(options) = k + 1
           /\ \A i \in 1..k :
                 /\ options[i].action = Strategies[reply.tool][i].name
                 /\ options[i].action # "manual_check"
           /\ options[k + 1].action = "manual_check"
           /\ options[k + 1].params = Null
           /\ options[k + 1].timeout = 0
           /\ options[k + 1].estimatedSuccessRate.num
                 = options[k + 1].estimatedSuccessRate.den
           /\ reply.value.suggestedAction = options[1]

\* formatTimeoutError returned the descriptor of a tool class that has
\* statistics, and its first option is the first strategy of the class
C18_Witness ==
    /\ reply.method = "formatTimeoutError"
    /\ reply.tool \in ToolClasses
    /\ reply.value.performanceContext # Null
    /\ Len(reply.value.recoveryOptions) = 4
    /\ reply.value.suggestedAction.action = "limit_results"

\* the strategies tried in attemptsMade attempts, the first attempt being the
\* request as it was made and each later one the next strategy of the class
Tried(tool, attemptsMade) ==
    {Strategies[tool][a].name :
        a \in {b \in 1..Len(Strategies[tool]) : b <= attemptsMade - 1}}

\* C19 (as claimed): the descriptor produced after attemptsMade attempts
\* offers the strategies of the tool class that were not tried yet, each with
\* an estimated success rate, and offers no strategy that was tried in those
\* attempts.
C19_TriedStrategiesNotOffered ==
    (reply.method = "formatTimeoutError" /\ reply.tool \in ToolClasses) =>
        LET options == reply.value.recoveryOptions IN
        \A i \in 1..Len(options) :
            /\ Has(options[i], "estimatedSuccessRate")
            /\ options[i].action \notin Tried(reply.tool, reply.attemptsMade)

(***************************************************************************)
(* Claims about callToolWithTimeout, checked under SpecTimed.              *)
(***************************************************************************)
\* C12 (as claimed): every callToolWithTimeout call that ended, in a payload,
\* a timeout or a raised error, was recorded once in the performance tracker:
\* the successes and failures recorded are as many as the calls made.
C12_EveryAttemptRecorded ==
    call.pc = "done" => Recorded = calls

\* C3 (as claimed): callToolWithTimeout returns control to its caller, with
\* a payload, a timeout descriptor or a raised error, no later than its
\* timeout after it was called; the time spent obtaining the connection
\* counts.
C3_ReturnsWithinTimeout ==
    call.pc = "done" => call.elapsed <= call.timeout

\* C23: when callTool rejects before the call's own timer fires (the channel
\* closed, or any other failure of the request underneath), callToolWithTimeout
\* raises the error: it does not return the timeout descriptor.
C23_TransportErrorRaised ==
    call.pc = "done" /\ call.settled = "rejected" => call.result = "raised"

(***************************************************************************)
(* Claims about the connection pool, checked under Spec.                   *)
(***************************************************************************)
GetConnectionTasks == {t \in Tasks : task[t].op = "getConnection"}

\* C1 (as claimed): a pooled connection that fails its liveness probe is
\* rebuilt exactly once, however many getConnection calls saw the probe of it
\* fail: no two calls run connectServer for the same failed connection.
C1_OneRebuildPerStaleConnection ==
    \A t, u \in GetConnectionTasks :
        (t # u /\ task[t].evicted # NoConn) => task[t].evicted # task[u].evicted

\* C2: a connection getConnection returns passed the probe in that call or
\* was built by connectServer in that call; a connection whose probe failed in
\* a call is out of the pool when that call rebuilds and from then on, and is
\* not what the call returns.
C2_NoStaleConnectionReturned ==
    \A t \in GetConnectionTasks :
        /\ task[t].pc = "returned" =>
              /\ task[t].ret # NoConn
              /\ task[t].ret \in {task[t].probed, task[t].built}
              /\ task[t].ret # task[t].evicted
        /\ task[t].evicted # NoConn =>
              /\ connectionPool[task[t].key] # task[t].evicted
              /\ task[t].probed = NoConn

\* a call whose probe failed has rebuilt and returned the connection it built
C2_Witness ==
    \E t \in GetConnectionTasks :
        /\ task[t].pc = "returned"
        /\ task[t].evicted # NoConn
        /\ task[t].ret = task[t].built
        /\ connectionPool[task[t].key] = task[t].ret

\* disconnect() of task t returns in this step
DisconnectReturns(t) ==
    /\ task[t].pc # "returned"
    /\ task'[t].op = "disconnect"
    /\ task'[t].pc = "returned"

C26_IntentMessageNeverGathers ==
    turn.pc = "gatherData" =>
        /\ Truthy(turn.pendingRequest)
        /\ IsConfirmation(turn.message)
        /\ DetectMCPIntent(turn.message) = Null

\* C27: a denial of a pending request removes it and gatherData is not
\* called; a confirmation removes it before gatherData is called.  gatherData
\* is called only for a pending request, and a request becomes pending only
\* by a message of that user with an intent: after a confirmation or a
\* denial, a 'yes' does not call gatherData unless such a message came
\* between.
C27_PendingConsumedOnce ==
    /\ [](turn.pc = "gatherData" =>
            /\ Truthy(turn.pendingRequest)
            /\ turn.decision = "confirmed"
            /\ ~Has(pendingMCPRequests, turn.userId))
    /\ [][/\ turn.pc = "getSystemPrompt" /\ turn'.decision # "none"
             /\ Has(pendingMCPRequests, turn.userId) =>
                  /\ IsDenial(turn.message) =>
                        /\ turn'.pc = "generateResponse"
                        /\ ~Has(pendingMCPRequests', turn.userId)
                  /\ IsConfirmation(turn.message) =>
                        /\ turn'.pc = "gatherData"
                        /\ ~Has(pendingMCPRequests', turn.userId)
           /\ \A u \in Users :
                  ~Has(pendingMCPRequests, u) /\ Has(pendingMCPRequests', u) =>
                      /\ turn.userId = u
                      /\ DetectMCPIntent(turn.message) # Null
                      /\ pendingMCPRequests'[u].query = turn.message]_vars

\* the user answered 'yes' right after the turn in which the user denied a
\* request; nothing is pending and the LLM is asked without gatherData
C27_Witness ==
    /\ turn.pc = "generateResponse"
    /\ turn.message = YesPleaseSearch
    /\ turn.decision = "plain"
    /\ turn.before = "denied"
    /\ turn.pendingRequest = Undefined
    /\ ~Has(pendingMCPRequests, turn.userId)

(***************************************************************************)
(* Claims about the LeoAgent of agent.js, checked under SpecAgent.         *)
(***************************************************************************)
\* C28: the intent of a turn is debug_mode exactly when the message matches
\* a debug pattern or the user's error context is set, and it is fixed when
\* the turn begins; a user's error context is set exactly when gatherData's
\* result in that user's latest turn with a result had a timeout error.
C28_IntentFromEarlierTurns ==
    /\ [](/\ turn.pc # "idle" =>
               (turn.intent = "debug_mode" <=>
                    IsDebugMessage(turn.message) \/ turn.before = "timeout")
          /\ Has(turn, "prior") =>
               \A u \in Users :
                   Has(lastErrorContext, u) <=>
                       Has(turn.prior, u) /\ turn.prior[u] = "timeout")
    /\ [][turn.pc # "idle" /\ turn'.pc # "idle" => turn'.intent = turn.intent]_vars

\* a turn whose message matches no debug pattern is in debug_mode because
\* the user's turn before had a timeout error, although its own result has
\* none and has cleared the context
C28_Witness ==
    /\ turn.pc = "generateResponse"
    /\ turn.intent = "debug_mode"
    /\ ~IsDebugMessage(turn.message)
    /\ turn.before = "timeout"
    /\ ~Has(lastErrorContext, turn.userId)
    /\ \E other \in Users \ {turn.userId} : Has(lastErrorContext, other)

(***************************************************************************)
(* Claims about BrandDetector, checked under SpecBrand.                    *)
(***************************************************************************)
\* C29: detectBrand(message, history) is a function of its two arguments:
\* whatever calls were made before, it returns what a new detector returns
\* for them, which is null when neither the message nor the history
\* mentions a brand.
C29_DetectBrandPure ==
    reply.method = "detectBrand" =>
        reply.value = DetectBrand(reply.message, reply.history, Null).returned

(***************************************************************************)
(* Claims about healthCheck, checked under SpecHealth.                     *)
(***************************************************************************)
EnabledKeySet == {EnabledKeys[i] : i \in 1..Len(EnabledKeys)}

\* the entry healthCheck wrote for the key is of the kind the try block's end
\* calls for
EntryFits(key) ==
    LET entry == health.health[key] IN
    IF health.probe[key] = "answered"
    THEN /\ entry.status = "healthy"
         /\ Has(entry, "responseTime")
         /\ entry.responseTime < HealthTimeout
         /\ ~Has(entry, "error")
    ELSE /\ entry.status = "unhealthy"
         /\ Has(entry, "error")
         /\ ~Has(entry, "responseTime")

C11_SecondCallSameConnection ==
    \A u \in GetConnectionTasks :
        (task[u].prev # NoConn /\ task[u].alone /\ task[u].evicted = NoConn) =>
            /\ task[u].pc \in {"probing", "returned"}
            /\ task[u].built = NoConn
            /\ task[u].pc = "returned" => task[u].ret = task[u].prev

\* the second of two successive calls has returned the first call's connection
C11_Witness ==
    \E u \in GetConnectionTasks :
        /\ task[u].prev # NoConn
        /\ task[u].alone
        /\ task[u].pc = "returned"
        /\ task[u].evicted = NoConn
        /\ task[u].ret = task[u].prev

\* the subprocesses of key k that are running OS processes
LiveCount(k) ==
    Cardinality({id \in ConnIds : subprocess[id].key = k /\ Live(id)})
    + (IF leaked[k] THEN 1 ELSE 0)

\* C8 (as claimed): each server key has at most one live Transport
\* Connection: at most one subprocess spawned for it and not ended.
C8_AtMostOneLivePerKey == \A k \in Keys : LiveCount(k) <= 1

\* C9 (as claimed): a connection evicted because its probe failed is
\* destroyed by the eviction: its subprocess is not live afterwards.
C9_EvictedIsDestroyed ==
    \A t \in GetConnectionTasks :
        task[t].evicted # NoConn => ~Live(task[t].evicted)

\* a getConnection call ended by raising the error of its own connectServer
BuildRaised(t) ==
    /\ task[t].op = "getConnection"
    /\ task[t].pc = "raised"
    /\ task[t].conn # NoConn

\* C10 (as claimed): when connectServer fails while getConnection(key) is
\* rebuilding, the error is raised to the caller (nothing is returned) and
\* the connection pool holds no entry for the key afterwards, so that the
\* next getConnection(key) rebuilds.
C10_FailedRebuildLeavesNoEntry ==
    \A t \in Tasks :
        BuildRaised(t) => /\ task[t].ret = NoConn
                          /\ connectionPool[task[t].key] = NoConn

\* What holds of a failed rebuild under every interleaving: the connection
\* that failed is in neither map and nothing is returned; the pool has no
\* entry for the key when no other call overlapped the failed one; and a
\* getConnection(key) that finds no pool entry for a configured key starts a
\* fresh connectServer (a new subprocess).
FailedRebuildNotCached ==
    /\ [](\A t \in Tasks :
            BuildRaised(t) =>
                /\ connectionPool[task[t].key] # task[t].conn
                /\ servers[task[t].key] # task[t].conn
                /\ task[t].ret = NoConn
                /\ task[t].alone => connectionPool[task[t].key] = NoConn)
    /\ [][\A t \in Tasks :
            (/\ task[t].op = "idle"
             /\ task'[t].op = "getConnection"
             /\ task'[t].key \in Keys
             /\ connectionPool[task'[t].key] = NoConn)
            => /\ task'[t].pc = "connecting"
               /\ subprocess[task'[t].conn].st = "unborn"
               /\ subprocess'[task'[t].conn].st = "running"]_vars


(***************************************************************************)
(* Termination of gatherData, checked under SpecGatherFair.                *)
(***************************************************************************)
\* the callToolWithTimeout calls a call site of queryAtlassian or
\* queryGoogleDrive may make at most
AttemptsAllowed(site) ==
    CASE site = "jira"        -> 3
      [] site = "jiraProject" -> 2
      [] site = "confluence"  -> 3
      [] site = "googleDrive" -> 3
      [] OTHER                -> 0

\* a call site makes no more calls than allowed, and is entered once
AttemptsBounded ==
    /\ Invocations <= AttemptsAllowed(gather.retry.site)
    /\ gather.retry.site \notin DOMAIN gather.closed

\* what the tool calls of the gatherData call in flight gave so far
ToolOutcomes ==
    gather.log.jira_search \cup gather.log.confluence_search
        \cup gather.log.drive_search_files

\* C30: every gatherData call eventually returns its results, also when no
\* request is ever answered: a call site makes at most 3 (jira), 2 (jira
\* with the project key), 3 (confluence) and 3 (googleDrive)
\* callToolWithTimeout calls, and is entered once in a gatherData call.
C30_GatherDataTerminates ==
    /\ []AttemptsBounded
    /\ (gather.pc # "idle") ~> (gather.pc = "returned")

\* a gatherData call returned although none of its 3 + 2 jira calls and 3
\* confluence calls was answered
C30_Witness ==
    /\ gather.pc = "returned"
    /\ DOMAIN gather.closed = {"jira", "jiraProject", "confluence"}
    /\ \A site \in DOMAIN gather.closed : gather.closed[site] = "exhausted"
    /\ ToolOutcomes = {"timeout"}
    /\ Has(gather.results.atlassian.confluence, "error")


(***************************************************************************)
(* The backoff of callToolWithRetry, checked under SpecGather.             *)
(***************************************************************************)
\* the attempt of the callToolWithRetry call in flight has started
AttemptStarts == gather.pc = "backoff" /\ gather'.pc = "callToolWithTimeout"

\* C31: in callToolWithRetry no delay precedes attempt 0; attempt k (k >= 1)
\* starts when 2^k seconds have gone by since attempt k-1 returned, not
\* before, so the delays are 2 s, 4 s, ..., strictly increasing.
C31_BackoffDoubles ==
    /\ [](LET retry == gather.retry IN
            /\ \A k \in 1..Len(retry.delays) : retry.delays[k] = 2 ^ k
            /\ \A k \in 2..Len(retry.delays) :
                   retry.delays[k] > retry.delays[k - 1]
            /\ gather.pc = "callToolWithTimeout" =>
                   /\ Len(retry.delays) = retry.attempt
                   /\ Len(retry.outcomes) = retry.attempt
            /\ gather.pc = "backoff" =>
                   /\ retry.attempt >= 1
                   /\ Len(retry.outcomes) = retry.attempt
                   /\ Len(retry.delays) = retry.attempt - 1
                   /\ retry.waited <= 2 ^ retry.attempt)
    /\ [][AttemptStarts => gather.retry.waited = 2 ^ gather.retry.attempt]_vars
    /\ [][gather'.pc = "backoff" /\ gather.pc # "backoff"
            => gather.pc = "callToolWithTimeout" /\ gather'.retry.waited = 0]_vars

\* the third attempt of a callToolWithRetry call is in flight, 2 s and 4 s
\* after the first and the second returned
C31_Witness ==
    /\ gather.pc = "callToolWithTimeout"
    /\ gather.retry.attempt = 2
    /\ gather.retry.delays = <<2, 4>>
    /\ Len(gather.retry.outcomes) = 2


(***************************************************************************)
(* The loser of the race in callToolWithTimeout, checked under SpecTimed.  *)
(***************************************************************************)
\* a promise that lost a race settles in this step
LateStep == call'.abandoned # call.abandoned /\ call'.abandoned \subseteq call.abandoned

\* C34: a timed-out attempt is abandoned, not cancelled, and its late outcome
\* is discarded: when the request of a call that returned the timeout
\* descriptor is answered or fails later, or the timer of a call that was
\* answered fires later, the value the caller has, the call in flight and its
\* result, the pool and the subprocesses stay as they are, and no rejection
\* goes unhandled.
C34_LateOutcomeDiscarded ==
    /\ [](~call.unhandled)
    /\ [][call.pc = "callTool" /\ call'.pc = "done" =>
             \E p \in call'.abandoned :
                 /\ p.promise = IF call'.result = "timeout"
                                    /\ call'.settled = "timer"
                                 THEN "callPromise" ELSE "timeoutPromise"]_vars
    /\ [][LateStep =>
             /\ UNCHANGED <<poolVars, gather>>
             /\ call'.last = call.last
             /\ call'.pc = call.pc
             /\ call'.result = call.result
             /\ call'.conn = call.conn
             /\ call'.elapsed = call.elapsed]_vars

\* the promise that lost the race of a timed-out call has settled, and the
\* next call waits for its answer: the caller still has the timeout
\* descriptor
C34_Witness ==
    /\ call.pc = "callTool"
    /\ call.last = "timeout"
    /\ call.abandoned = {}
    /\ calls = 2


(***************************************************************************)
(* The pool on a cold start, checked under Spec.                           *)
(***************************************************************************)
\* the calls that are inside connectServer(k)
Connecting(k) ==
    {t \in Tasks : /\ task[t].op \in {"getConnection", "initialize"}
                   /\ task[t].pc \in {"connecting", "listing"}
                   /\ task[t].key = k}

\* C35: on a manager that is not yet initialized, or whose pool has no
\* entry for the key, concurrent calls never run connectServer(key) at the
\* same time, and one subprocess of the key is spawned.
C35_ColdStartExclusive ==
    \A k \in Keys :
        (~initialized \/ connectionPool[k] = NoConn) =>
            /\ Cardinality(Connecting(k)) <= 1
            /\ Cardinality({id \in ConnIds : /\ subprocess[id].key = k
                                              /\ Live(id)}) <= 1


(***************************************************************************)
(* The two maps of the manager, checked under Spec.                        *)
(***************************************************************************)
\* C36: every key connectionPool holds is held by servers too, with the same
\* connection object, so isServerAvailable(key) is true and getStatus reports
\* the key as available whenever the pool holds it.
C36_PoolWithinServers ==
    \A k \in Keys :
        connectionPool[k] # NoConn =>
            /\ servers[k] = connectionPool[k]
            /\ IsServerAvailable(k)
            /\ GetStatus[k].available

\* the converse fails: after an eviction whose rebuild failed servers keeps
\* the entry the pool has lost, and the key is still reported as available
C36_Witness ==
    \E k \in Keys, t \in Tasks :
        /\ task[t].op = "getConnection"
        /\ task[t].pc = "raised"
        /\ task[t].key = k
        /\ task[t].evicted # NoConn
        /\ connectionPool[k] = NoConn
        /\ servers[k] = task[t].evicted
        /\ GetStatus[k].available


(***************************************************************************)
(* The pending request of a user, checked under SpecPermission.            *)
(***************************************************************************)
\* chat has read the message of the turn and decided what to do with it
TurnDecided == turn.pc = "getSystemPrompt" /\ turn'.decision # "none"

\* C37: a user has one pending request at most; a message with an intent
\* becomes the user's pending request, in place of the one before; a message
\* that is neither a confirmation nor a denial nor has an intent leaves the
\* pending request as it is; only a confirmation or a denial takes it away.
C37_PendingReplacedOrKept ==
    [][TurnDecided =>
         LET u == turn.userId
             message == turn.message
         IN /\ DetectMCPIntent(message) # Null =>
                   /\ Has(pendingMCPRequests', u)
                   /\ pendingMCPRequests'[u].query = message
            /\ (/\ DetectMCPIntent(message) = Null
                /\ ~IsConfirmation(message)
                /\ ~IsDenial(message)) =>
                   pendingMCPRequests' = pendingMCPRequests
            /\ (Has(pendingMCPRequests, u) /\ ~Has(pendingMCPRequests', u)) =>
                   turn'.decision \in {"confirmed", "denied"}
            /\ \A v \in DOMAIN pendingMCPRequests \ {u} :
                   /\ Has(pendingMCPRequests', v)
                   /\ pendingMCPRequests'[v] = pendingMCPRequests[v]]_vars


(***************************************************************************)
(* What a confirmed request queries, checked under SpecPermission.         *)
(***************************************************************************)
\* the systems a permission question names
NamedIn(question) ==
    {system \in {"jira", "confluence", "googleDrive"} :
        TestAny({CASE system = "jira" -> <<"j","i","r","a">>
                   [] system = "confluence" ->
                         <<"c","o","n","f","l","u","e","n","c","e">>
                   [] system = "googleDrive" ->
                         <<"g","o","o","g","l","e"," ","d","r","i","v","e">>},
                question)}

\* the tool classes gatherData(query) searches when its connections are up:
\* those whose callToolWithRetry call it reaches
Queried(query) ==
    LET g == [NoGather EXCEPT !.query = Words(query)] IN
    (IF CheckAtlassian(g).pc = "queryAtlassian"
     THEN {site \in {"jira"} : CheckJira(g).retry.site = site}
          \cup {site \in {"confluence"} : CheckConfluence(g).retry.site = site}
     ELSE {})
    \cup {site \in {"googleDrive"} :
             CheckGoogleDrive(g).pc = "queryGoogleDrive"}

\* C38: the gatherData call made after a confirmation queries the systems
\* the confirmed permission question named and no other: a question that
\* named Jira, Confluence or Google Drive alone is followed by no search of
\* another server or tool class.
C38_QueriesOnlyWhatWasAsked ==
    turn.pc = "gatherData" =>
        LET request == turn.pendingRequest
            named == NamedIn(GeneratePermissionRequest(request.intent))
        IN Cardinality(named) = 1 => Queried(request.query) \subseteq named

(***************************************************************************)
(* The two LeoAgent classes together: the first chat call is made on a new *)
(* LeoAgent of either class, and the calls after it on the same one.       *)
(***************************************************************************)
\* the class of the LeoAgent the chat calls are made on, once one was made
Constructed(agent) == IF turn.n = 0 THEN TRUE ELSE turn.agent = agent

NextAgents ==
    \/ Constructed("permission") /\ NextPermission
    \/ Constructed("intent") /\ NextAgent

SpecAgents == Init /\ [][NextAgents]_vars

\* agent.js line 67, part_005 lines 54, 73, 112: history.slice(-10)
ContextLimit == 10

\* Map.prototype.get
EntryOf(map, key) == IF Has(map, key) THEN map[key] ELSE Undefined

\* what chat keeps for a user in its three maps
PerUserState(u) ==
    [conversationHistory |-> EntryOf(conversationHistory, u),
     lastErrorContext |-> EntryOf(lastErrorContext, u),
     pendingMCPRequests |-> EntryOf(pendingMCPRequests, u)]

\* agent.js lines 37-38: the intent a chat call of the user would have now
IntentNow(u, message) ==
    DetectIntent(message, [lastError |-> EntryOf(lastErrorContext, u)])

\* the messages of the user's history a chat call of the user would give the
\* LLM now
ContextNow(u) ==
    IF Has(conversationHistory, u)
    THEN LastOf(conversationHistory[u], ContextLimit)
    ELSE <<>>

\* the user whose chat call takes the step
Acting == IF turn.pc = "idle" THEN turn'.userId ELSE turn.userId

\* C39: no step of a chat call of one user makes, changes or deletes the
\* conversation history, the error context or the pending request of another
\* user; so the intent a call of the other user would have and the history
\* messages it would give the LLM are what they were before the step, and
\* the intent of a call is the one the user's own error context gives.
C39_PerUserIsolated ==
    [][/\ \A u \in Users \ {Acting} :
              /\ PerUserState(u)' = PerUserState(u)
              /\ ContextNow(u)' = ContextNow(u)
              /\ \A message \in AgentMessages :
                     IntentNow(u, message)' = IntentNow(u, message)
       /\ (turn.pc = "idle" /\ turn'.agent = "intent") =>
              turn'.intent = IntentNow(turn'.userId, turn'.message)]_vars

\* a user's confirmed request was taken away and the turn answered, while
\* the other user's request is still pending and the other user's history
\* has its messages
C39_Witness ==
    /\ turn.pc = "returned"
    /\ turn.agent = "permission"
    /\ turn.decision = "confirmed"
    /\ ~Has(pendingMCPRequests, turn.userId)
    /\ \E other \in Users \ {turn.userId} :
           /\ Has(pendingMCPRequests, other)
           /\ Has(conversationHistory, other)
           /\ conversationHistory[other] # <<>>

(***************************************************************************)
(* Chat calls on a LeoAgent that has answered a user before: the history   *)
(* of that user is the one the earlier turns left, long enough for the     *)
(* twenty-message limit to be met by the calls of the behaviour.           *)
(***************************************************************************)
\* the successful turns the user had before the behaviour begins
MaxEarlier == 10

\* none, or so many that the next turns fill the history and go over it
EarlierTurns == {0} \cup ((MaxEarlier - 1)..MaxEarlier)

\* what the user wrote in the i-th of the earlier turns
EarlierMessage(i) == IF i % 2 = 1 THEN GotTimeoutError ELSE FewerResults

\* the history after n successful turns, each pushing its two messages and
\* trimming
RECURSIVE EarlierHistory(_)
EarlierHistory(n) ==
    IF n = 0 THEN <<>>
    ELSE Pushed2(EarlierHistory(n - 1), EarlierMessage(n), LlmResponse)

\* the user of the earlier turns
EarlierUser == CHOOSE u \in Users : TRUE

InitEarlier ==
    /\ servers = [k \in Keys |-> NoConn]
    /\ serversOrder = <<>>
    /\ connectionPool = [k \in Keys |-> NoConn]
    /\ initialized = FALSE
    /\ subprocess = [id \in ConnIds |-> Unborn]
    /\ leaked = [k \in Keys |-> FALSE]
    /\ calls = 0
    /\ task = [t \in Tasks |-> IdleTask]
    /\ call = NoCall
    /\ gather = NoGather
    /\ failureHistory = EmptyObject
    /\ performanceMetrics = EmptyObject
    /\ reply = NoReply
    /\ health = NoHealth
    /\ lastDetectedBrand = Null
    /\ \E n \in EarlierTurns :
           conversationHistory =
              IF n = 0 THEN EmptyObject
              ELSE SetProp(EmptyObject, EarlierUser, EarlierHistory(n))
    /\ pendingMCPRequests = EmptyObject
    /\ lastErrorContext = EmptyObject
    /\ turn = NoTurn

SpecEarlier == InitEarlier /\ [][NextAgents]_vars

\* getHistory, agent.js line 260: the user's history, empty when there is
\* none
HistoryOf(u) ==
    IF Has(conversationHistory, u) THEN conversationHistory[u] ELSE <<>>

\* the step in which the chat call gets its return value
Answered == turn.pc # "returned" /\ turn'.pc = "returned"

\* C40: a chat call ends by returning a text, never by raising; a history
\* has twenty messages at most; the step that returns an answer other than
\* the apology appends the user's message and then the answer to the
\* caller's history and keeps the last twenty messages of that; every other
\* step, the return of the apology among them, leaves every history as it
\* was.
C40_ChatBoundedHistory ==
    /\ [](/\ turn.pc \in {"idle", "getSystemPrompt", "gatherData",
                          "generateResponse", "returned"}
          /\ turn.pc = "returned" => turn.returned # Undefined
          /\ \A u \in Users : Len(HistoryOf(u)) <= HistoryLimit)
    /\ [][\A u \in Users :
              IF u = Acting /\ Answered /\ turn'.returned # Apology
              THEN LET appended ==
                         HistoryOf(u)
                         \o <<[role |-> "user", content |-> turn.message],
                              [role |-> "assistant",
                               content |-> turn'.returned]>>
                   IN HistoryOf(u)' = LastOf(appended, HistoryLimit)
              ELSE HistoryOf(u)' = HistoryOf(u)]_vars

\* a call was answered when the history was full: the history has its
\* twenty messages, the two oldest of the earlier turns are gone and the two
\* of this turn are the last
C40_Witness ==
    /\ turn.pc = "returned"
    /\ turn.returned = LlmResponse
    /\ LET history == HistoryOf(turn.userId) IN
       /\ Len(history) = HistoryLimit
       /\ history # EarlierHistory(MaxEarlier)
       /\ history[1].content = EarlierMessage(2)
       /\ history[HistoryLimit - 1].content = turn.message
       /\ history[HistoryLimit].content = LlmResponse

=============================================================================
